---- MODULE Spec2Model ----
(***************************************************************************)
(* Workflow (src-tauri/src/main.rs): the encrypted single-file document    *)
(* store, its undo/redo ledger, the kanban/stock commands and the merge    *)
(* engine, modelled as state machines.                                     *)
(*                                                                         *)
(* Ids are integers: 0 is the empty string, n > 0 is the n-th id minted by *)
(* new_id(), n < 0 is an id supplied from outside (a request or an         *)
(* imported file).  Timestamps (now_string) are left out of the records.   *)
(***************************************************************************)
EXTENDS Integers, Sequences, FiniteSets, TLC

VARIABLES
    db,        \* the live document (what load_db_value returns / save_db_value stores)
    nextId,    \* number of ids new_id() has minted so far
    result,    \* the response of the last command
    disk,      \* the data file, the imported source files and the meta file
    cache,     \* the one slot of db_cache()
    proc,      \* per thread: the command it runs and where it stands in it
    hist       \* what has happened: salts drawn, the save that returned last

vars == <<db, nextId, result, disk, cache, proc, hist>>

storeVars == <<disk, cache, proc, hist>>

\* ---------------------------------------------------------------- bounds
MaxIds == 5            \* ids new_id() may mint in one behaviour
MaxColumns == 2        \* columns on the board
MaxCards == 2          \* cards on the board

\* ------------------------------------------------------- generic helpers
Max2(a, b) == IF a >= b THEN a ELSE b

Min2(a, b) == IF a <= b THEN a ELSE b

SetMax(S) == CHOOSE x \in S : \A y \in S : y <= x

RECURSIVE InsertByOrder(_, _)
\* insert x behind every element whose order is <= x.order (keeps the sort stable)
InsertByOrder(sorted, x) ==
    IF sorted = <<>> THEN <<x>>
    ELSE IF Head(sorted).order <= x.order
         THEN <<Head(sorted)>> \o InsertByOrder(Tail(sorted), x)
         ELSE <<x>> \o sorted

RECURSIVE SortByOrder(_)
\* slice::sort_by_key(|v| value_i64(v.get("order"))): a stable sort
SortByOrder(s) ==
    IF s = <<>> THEN <<>>
    ELSE InsertByOrder(SortByOrder(SubSeq(s, 1, Len(s) - 1)), s[Len(s)])

\* ------------------------------------------------------------------ ids
\* An id is an integer: 0 is the empty string, n > 0 is the n-th id new_id()
\* returned, -1 is an id that came from outside ("ext"), and -2 is that id with
\* blanks around it (" ext ").
EmptyId == 0

\* new_id(): a time stamp and 80 random bits, taken to differ from every
\* earlier id
NewId(n) == n + 1

\* clamp_string(id, 128, true) on an id: the blanks around it go
ClampId(id) == IF id = -2 THEN -1 ELSE id

\* ------------------------------------------------------------ documents
NoUniformFields ==
    [issued |-> "", shirtSize |-> "", issShirtSize |-> "",
     shirtsGiven |-> "", issShirtsGiven |-> "",
     shirtType |-> <<>>, issShirtType |-> <<>>,
     waist |-> "", inseam |-> "", issWaist |-> "", issInseam |-> "",
     pantsSize |-> "", issPantsSize |-> "",
     pantsGiven |-> "", issPantsGiven |-> "",
     pantsType |-> "", issPantsType |-> ""]

default_candidate_row ==
    [uuid |-> EmptyId, name |-> "", branch |-> "", phone |-> "",
     hours |-> "", uni |-> NoUniformFields]

\* a map without keys: HashMap::new(), json!({})
EmptyMap == [x \in {} |-> EmptyId]

default_db_value ==
    [columns |-> <<>>, cards |-> <<>>, candidates |-> <<>>,
     uniforms |-> <<>>, weekly |-> EmptyMap, todos |-> <<>>,
     items |-> <<>>, redo |-> <<>>]

\* a ledger payload: the keys a json!({...}) payload carries; hasId says whether
\* the object has an "id" key of its own
Payload(type) ==
    [hasId |-> FALSE, id |-> EmptyId, type |-> type,
     columns |-> <<>>, cards |-> <<>>, candidates |-> <<>>,
     adjustments |-> <<>>, uniforms |-> <<>>, todos |-> <<>>, entries |-> <<>>]

\* the response of the last command, kept when that command was an undo or a
\* redo: whether it succeeded, the token it was called with, the id it
\* returned (redoId, undoId) and its "error"
NoResult == [cmd |-> "other", ok |-> FALSE, arg |-> EmptyId, token |-> EmptyId]

Response(cmd, ok, arg, token, err) ==
    IF cmd \in {"undo", "redo"}
    THEN [cmd |-> cmd, ok |-> ok, arg |-> arg, token |-> token, err |-> err]
    ELSE NoResult

\* --------------------------------------------------------------- ledger
\* an entry filed under the id of the first entry ever made
FiledUnderFirstId(payload, fresh) ==
    [payload EXCEPT !.hasId = TRUE, !.id = NewId(0)]

\* push_recycle_item / push_redo_item: the entry gets the fresh id first and then
\* every key of the payload is inserted over it
PushEntry(payload, fresh) ==
    [payload EXCEPT !.hasId = TRUE,
                    !.id = IF payload.hasId THEN payload.id ELSE fresh]

push_recycle_item(d, payload, fresh) ==
    [d EXCEPT !.items = Append(@, PushEntry(payload, fresh))]

\* the entry put back on recycle.items
PushedBack(d, payload, fresh) ==
    [d EXCEPT !.items = Append(@, PushEntry(payload, fresh))]

push_redo_item(d, payload, fresh) ==
    [d EXCEPT !.redo = Append(@, PushEntry(payload, fresh))]

\* recycle.items read as a stack: the position of the id when it is that of
\* the last entry
TopIndex(list, id) ==
    IF list # <<>> /\ list[Len(list)].id = id THEN Len(list) ELSE 0

\* position of the first entry with the id, 0 when there is none
FirstIndex(list, id) ==
    IF \E i \in 1..Len(list) : list[i].id = id
    THEN CHOOSE i \in 1..Len(list) :
            list[i].id = id /\ \A j \in 1..(i - 1) : list[j].id # id
    ELSE 0

RemoveAt(list, i) == SubSeq(list, 1, i - 1) \o SubSeq(list, i + 1, Len(list))

\* -------------------------------------------------------------- strings
\* str::to_lowercase on the strings the model uses
Lower(s) ==
    CASE s = "ALT1"   -> "alt1"
      [] s = "Yes"    -> "yes"
      [] s = "Shirt"  -> "shirt"
      [] s = "Shirts" -> "shirts"
      [] s = "Pants"  -> "pants"
      [] s = "M"      -> "m"
      [] s = "B1"     -> "b1"
      [] s = "Append" -> "append"
      [] OTHER        -> s

\* str::to_uppercase on the sizes the model uses
Upper(s) ==
    CASE s = "m" -> "M"
      [] OTHER   -> s

\* str::trim on the strings the model uses
Trim(s) ==
    CASE s = " alt1"   -> "alt1"
      [] s = " "       -> ""
      [] s = " Append" -> "Append"
      [] OTHER         -> s

\* clamp_string(value, max_len, trim): no model string is longer than the limits
\* used or holds control characters, so only the trimming acts
clamp_string(s, trim) == IF trim THEN Trim(s) ELSE s

\* value.trim().parse::<i64>().unwrap_or(0) on the strings the model uses
ParseI64(s) ==
    CASE Trim(s) = "1" -> 1
      [] Trim(s) = "2" -> 2
      [] Trim(s) = "3" -> 3
      [] Trim(s) = "4" -> 4
      [] Trim(s) = "5" -> 5
      [] OTHER         -> 0

\* ---------------------------------------------------------------- stock
normalize_uniform_type(value) ==
    LET text == clamp_string(value, TRUE)
    IN  IF Lower(text) = "shirts" THEN "Shirt"
        ELSE IF Lower(text) = "pants" THEN "Pants"
        ELSE text

\* parse_nonnegative_integer on a quantity that is already a JSON integer
parse_nonnegative_integer(q) == Max2(q, 0)

\* normalize_uniform_payload on an entry with the fields alteration, type, size,
\* waist, inseam, quantity, branch
normalize_uniform_payload(e) ==
    LET kind   == normalize_uniform_type(e.type)
        size0  == clamp_string(e.size, TRUE)
        waist  == clamp_string(e.waist, TRUE)
        inseam == clamp_string(e.inseam, TRUE)
        size1  == IF kind = "Pants" /\ size0 = "" /\ waist # "" /\ inseam # ""
                  THEN waist \o "x" \o inseam ELSE size0
        size2  == IF kind = "Shirt" THEN clamp_string(Upper(size1), TRUE) ELSE size1
    IN  [alteration |-> clamp_string(e.alteration, TRUE), kind |-> kind,
         size |-> size2, waist |-> waist, inseam |-> inseam,
         quantity |-> parse_nonnegative_integer(e.quantity),
         branch |-> clamp_string(e.branch, TRUE)]

uniform_key_from_entry(e) ==
    <<Lower(e.branch), Lower(e.type), Lower(e.size), Lower(e.alteration)>>

uniform_key_from_payload(p) ==
    <<Lower(p.branch), Lower(p.kind), Lower(p.size), Lower(p.alteration)>>

\* index of the first stock entry with the payload's key, 0 when there is none
StockIndex(uniforms, key) ==
    IF \E i \in 1..Len(uniforms) : uniform_key_from_entry(uniforms[i]) = key
    THEN CHOOSE i \in 1..Len(uniforms) :
            /\ uniform_key_from_entry(uniforms[i]) = key
            /\ \A j \in 1..(i - 1) : uniform_key_from_entry(uniforms[j]) # key
    ELSE 0

\* TLC's integers have 32 bits.  An i64 value h * 2^62 + l with a small l is
\* written h * TwoTo62 + l here: sums and comparisons of such values come out
\* the same, and the range of an i64 is -2 * TwoTo62 .. 2 * TwoTo62 - 1
TwoTo62 == 2^20

\* a + b on i64 overflows
AddOverflows(a, b) == a + b >= 2 * TwoTo62 \/ a + b < -(2 * TwoTo62)

\* a + b on i64 in a build without overflow checks: the sum wraps around
WrappingAdd(a, b) ==
    IF a + b >= 2 * TwoTo62 THEN a + b - 4 * TwoTo62
    ELSE IF a + b < -(2 * TwoTo62) THEN a + b + 4 * TwoTo62
    ELSE a + b

\* whether the build checks integer overflow, where that makes a difference
OverflowChecks(overflow) == IF overflow THEN BOOLEAN ELSE {FALSE}

\* result: the document, the id counter, and whether the sum of the quantities
\* overflowed (a build with overflow checks panics there)
upsert_uniform_stock(d, p, n) ==
    LET i == StockIndex(d.uniforms, uniform_key_from_payload(p))
    IN  IF i > 0
        THEN [db |-> [d EXCEPT !.uniforms[i].quantity = Max2(WrappingAdd(@, p.quantity), 0)],
              nextId |-> n,
              overflow |-> AddOverflows(d.uniforms[i].quantity, p.quantity)]
        ELSE [db |-> [d EXCEPT !.uniforms = Append(@,
                        [id |-> NewId(n), alteration |-> p.alteration, type |-> p.kind,
                         size |-> p.size, waist |-> p.waist, inseam |-> p.inseam,
                         quantity |-> p.quantity, branch |-> p.branch])],
              nextId |-> n + 1,
              overflow |-> FALSE]

\* a stock entry that keeps what it had
StockKeptWhole(available, deducted) == available

\* what a stock entry is left with after a decrement
StockAfterDecrement(available, deducted) == available - deducted

\* result: the document and the number of units deducted
decrement_uniform_stock(d, p) ==
    LET i == StockIndex(d.uniforms, uniform_key_from_payload(p))
    IN  IF i = 0 THEN [db |-> d, deducted |-> 0]
        ELSE LET available == Max2(d.uniforms[i].quantity, 0)
                 deducted  == Min2(available, Max2(p.quantity, 0))
                 left      == StockAfterDecrement(available, deducted)
             IN  IF available <= 0 THEN [db |-> d, deducted |-> 0]
                 ELSE IF left <= 0
                      THEN [db |-> [d EXCEPT !.uniforms = RemoveAt(@, i)],
                            deducted |-> deducted]
                      ELSE [db |-> [d EXCEPT !.uniforms[i].quantity = left],
                            deducted |-> deducted]

parse_issued_uniform_quantity(s) ==
    LET num == ParseI64(s) IN IF num >= 1 /\ num <= 4 THEN num ELSE 0

\* parse_issued_uniform_quantity(quantity.to_string())
IssuedQuantityOfInt(q) == IF q >= 1 /\ q <= 4 THEN q ELSE 0

append_uniform_adjustment(adjustments, p, quantity) ==
    IF quantity <= 0 THEN adjustments
    ELSE LET i == StockIndex(adjustments, uniform_key_from_payload(p))
         IN  IF i > 0
             THEN [adjustments EXCEPT ![i].quantity = @ + quantity]
             ELSE Append(adjustments,
                    [alteration |-> p.alteration, type |-> p.kind, size |-> p.size,
                     quantity |-> quantity, branch |-> p.branch])

DeductPayload(kind, size, branch, alteration, quantity) ==
    [alteration |-> alteration, kind |-> kind, size |-> size, waist |-> "",
     inseam |-> "", quantity |-> quantity, branch |-> branch]

RECURSIVE RoundRobin(_, _, _, _, _, _, _, _, _)
\* the while loop of deduct_uniforms_across_alterations
RoundRobin(d, kind, size, branch, targets, remaining, misses, idx, adjustments) ==
    IF ~(remaining > 0 /\ misses < Len(targets))
    THEN [db |-> d, adjustments |-> adjustments]
    ELSE LET p == DeductPayload(kind, size, branch, targets[(idx % Len(targets)) + 1], 1)
             r == decrement_uniform_stock(d, p)
         IN  IF r.deducted > 0
             THEN RoundRobin(r.db, kind, size, branch, targets, remaining - r.deducted,
                             0, idx + 1, append_uniform_adjustment(adjustments, p, r.deducted))
             ELSE RoundRobin(r.db, kind, size, branch, targets, remaining,
                             misses + 1, idx + 1, adjustments)

RECURSIVE ClampNonEmpty(_)
\* alterations.iter().map(clamp_string(v, 80, true)).filter(non-empty)
ClampNonEmpty(alts) ==
    IF alts = <<>> THEN <<>>
    ELSE LET a == clamp_string(Head(alts), TRUE)
         IN  (IF a = "" THEN <<>> ELSE <<a>>) \o ClampNonEmpty(Tail(alts))

\* result: the document and the adjustments made
deduct_uniforms_across_alterations(d, kind, size, quantity, branch, alterations) ==
    LET nkind   == normalize_uniform_type(kind)
        nsize   == clamp_string(size, TRUE)
        nbranch == clamp_string(branch, TRUE)
        nqty    == IssuedQuantityOfInt(quantity)
        t0      == ClampNonEmpty(alterations)
        targets == IF t0 = <<>> THEN <<"">> ELSE t0
    IN  IF nkind = "" \/ nsize = "" \/ nbranch = "" \/ nqty <= 0
        THEN [db |-> d, adjustments |-> <<>>]
        ELSE IF Len(targets) = 1
        THEN LET p == DeductPayload(nkind, nsize, nbranch, targets[1], nqty)
                 r == decrement_uniform_stock(d, p)
             IN  [db |-> r.db,
                  adjustments |-> append_uniform_adjustment(<<>>, p, r.deducted)]
        ELSE RoundRobin(d, nkind, nsize, nbranch, targets, nqty, 0, 0, <<>>)

RECURSIVE Lowered(_)
Lowered(list) ==
    IF list = <<>> THEN <<>> ELSE <<Lower(Head(list))>> \o Lowered(Tail(list))

RECURSIVE DedupLower(_, _)
\* out.retain(|item| seen.insert(item.to_lowercase()))
DedupLower(list, seen) ==
    IF list = <<>> THEN <<>>
    ELSE IF Lower(Head(list)) \in seen THEN DedupLower(Tail(list), seen)
         ELSE <<Head(list)>> \o DedupLower(Tail(list), seen \cup {Lower(Head(list))})

\* parse_alteration_list on a specification given as the list of its parts (the
\* text between the commas, or the elements of the JSON array)
parse_alteration_list(parts) == DedupLower(ClampNonEmpty(parts), {})

\* --------------------------------------------------------------- kanban
Ids(list) == {list[i].id : i \in 1..Len(list)}

Uuids(list) == {list[i].uuid : i \in 1..Len(list)}

\* index of the first row / card with the uuid, 0 when there is none
UuidIndex(list, id) ==
    IF \E i \in 1..Len(list) : list[i].uuid = id
    THEN CHOOSE i \in 1..Len(list) :
            list[i].uuid = id /\ \A j \in 1..(i - 1) : list[j].uuid # id
    ELSE 0

\* result: the document and the index of the candidate row
ensure_candidate_row(d, candidate_id) ==
    LET i == UuidIndex(d.candidates, candidate_id)
        c == UuidIndex(d.cards, candidate_id)
        row == [default_candidate_row EXCEPT
                  !.uuid = candidate_id,
                  !.name = IF c > 0 THEN d.cards[c].name ELSE ""]
    IN  IF i > 0
        THEN [db |-> [d EXCEPT !.candidates[i].uuid = candidate_id], idx |-> i]
        ELSE [db |-> [d EXCEPT !.candidates = Append(@, row)],
              idx |-> Len(d.candidates) + 1]

\* the highest order of the cards of a column, 0 when it has none
MaxOrderIn(cards, column_id) ==
    LET orders == {cards[i].order : i \in {j \in 1..Len(cards) : cards[j].column_id = column_id}}
    IN  IF orders = {} THEN 0 ELSE SetMax(orders)

\* the order the first reassigned card gets in its new column
NextOrderIn(cards, column_id) == WrappingAdd(MaxOrderIn(cards, column_id), 1)

RECURSIVE ReassignCards(_, _, _, _)
\* the loop over the sorted cards that moves the cards of the deleted columns
ReassignCards(cards, ids, target, next_order) ==
    IF cards = <<>> THEN <<>>
    ELSE IF Head(cards).column_id \in ids
         THEN <<[Head(cards) EXCEPT !.column_id = target, !.order = next_order]>>
              \o ReassignCards(Tail(cards), ids, target, WrappingAdd(next_order, 1))
         ELSE <<Head(cards)>> \o ReassignCards(Tail(cards), ids, target, next_order)

\* result: ok, the error, the document, the undo id, the new id counter, and
\* whether an order + 1 overflowed (a build with overflow checks panics there)
remove_kanban_columns(d, ids, record_undo, n) ==
    LET removed_columns   == SelectSeq(d.columns, LAMBDA c : c.id \in ids)
        remaining_columns == SelectSeq(d.columns, LAMBDA c : c.id \notin ids)
        removed_cards     == SelectSeq(d.cards, LAMBDA c : c.column_id \in ids)
        target_column_id  == SortByOrder(remaining_columns)[1].id
        moved ==
            IF remaining_columns # <<>> /\ removed_cards # <<>> /\ target_column_id # EmptyId
            THEN ReassignCards(SortByOrder(d.cards), ids, target_column_id,
                               NextOrderIn(d.cards, target_column_id))
            ELSE d.cards
        overflow ==
            /\ remaining_columns # <<>> /\ removed_cards # <<>> /\ target_column_id # EmptyId
            /\ \/ AddOverflows(MaxOrderIn(d.cards, target_column_id), 1)
               \/ AddOverflows(NextOrderIn(d.cards, target_column_id), Len(removed_cards))
        d1 == [d EXCEPT !.cards = moved, !.columns = remaining_columns]
        payload == [Payload("kanban_columns") EXCEPT
                      !.columns = removed_columns, !.cards = removed_cards]
    IN  IF remaining_columns = <<>> /\ removed_cards # <<>>
        THEN [ok |-> FALSE, err |-> "last_column", db |-> d, undoId |-> EmptyId, nextId |-> n,
              overflow |-> FALSE]
        ELSE IF record_undo /\ removed_columns # <<>>
        THEN [ok |-> TRUE, err |-> "", db |-> push_recycle_item(d1, payload, NewId(n)),
              undoId |-> NewId(n), nextId |-> n + 1, overflow |-> overflow]
        ELSE [ok |-> TRUE, err |-> "", db |-> d1, undoId |-> EmptyId, nextId |-> n,
              overflow |-> overflow]

\* ------------------------------------------------------- undo and redo
\* the snapshot entities restore_recycle_item pushes back: those with a key that
\* was not in the list when the restore began
MissingById(snapshot, existing) ==
    SelectSeq(snapshot, LAMBDA e : e.id # EmptyId /\ e.id \notin existing)

\* every snapshot entity with a key, whether or not the list has it already
EveryByUuid(snapshot, existing) ==
    SelectSeq(snapshot, LAMBDA e : e.uuid # EmptyId)

MissingByUuid(snapshot, existing) ==
    SelectSeq(snapshot, LAMBDA e : e.uuid # EmptyId /\ e.uuid \notin existing)

\* an adjustment read as a payload of one unit, whatever it recorded
AdjustmentOfOneUnit(a) ==
    normalize_uniform_payload(
        [alteration |-> a.alteration, type |-> a.type, size |-> a.size, waist |-> "",
         inseam |-> "", quantity |-> 1, branch |-> a.branch])

\* an adjustment read as a stock payload (it has no waist or inseam key)
AdjustmentPayload(a) ==
    normalize_uniform_payload(
        [alteration |-> a.alteration, type |-> a.type, size |-> a.size, waist |-> "",
         inseam |-> "", quantity |-> a.quantity, branch |-> a.branch])

RECURSIVE CreditAdjustments(_, _, _)
\* for entry in adjustments { upsert_uniform_stock } of restore_recycle_item
CreditAdjustments(d, adjustments, n) ==
    IF adjustments = <<>> THEN [db |-> d, nextId |-> n, overflow |-> FALSE]
    ELSE LET p == AdjustmentPayload(Head(adjustments))
             r == IF p.quantity > 0 THEN upsert_uniform_stock(d, p, n)
                  ELSE [db |-> d, nextId |-> n, overflow |-> FALSE]
             rest == CreditAdjustments(r.db, Tail(adjustments), r.nextId)
         IN  [rest EXCEPT !.overflow = @ \/ r.overflow]

RECURSIVE DebitAdjustments(_, _)
\* for entry in adjustments { decrement_uniform_stock } of reapply_recycle_item
DebitAdjustments(d, adjustments) ==
    IF adjustments = <<>> THEN d
    ELSE LET p == AdjustmentPayload(Head(adjustments))
         IN  DebitAdjustments(
                 IF p.quantity > 0 THEN decrement_uniform_stock(d, p).db ELSE d,
                 Tail(adjustments))

\* result: ok, the document, the new id counter, and whether a sum overflowed
\* the elements of a set of integers in ascending order: the order in which a
\* serde_json map gives its keys
RECURSIVE Ascending(_)
Ascending(S) ==
    IF S = {} THEN <<>>
    ELSE LET least == CHOOSE x \in S : \A y \in S : x <= y
         IN  <<least>> \o Ascending(S \ {least})

\* the "weekly_entries" arm of restore_recycle_item: every entry with a
\* week_start and a day is inserted into its week, which is made when there is
\* none; insert puts the payload of the snapshot over a day that is there
RECURSIVE RestoreWeekly(_, _)
RestoreWeekly(weekly, entries) ==
    IF entries = <<>> THEN weekly
    ELSE LET entry == Head(entries)
             k     == entry.week_start
             held  == IF k \in DOMAIN weekly THEN weekly[k]
                      ELSE [object |-> TRUE, week_start |-> k, week_end |-> entry.week_end,
                            hasEntries |-> TRUE, entries |-> EmptyMap]
             w1    == [held EXCEPT !.week_start = k,
                                   !.week_end = IF entry.week_end # EmptyId
                                                THEN entry.week_end ELSE @,
                                   !.entries = IF held.hasEntries THEN @ ELSE EmptyMap,
                                   !.hasEntries = TRUE]
             week  == IF held.object
                      THEN [w1 EXCEPT !.entries = (entry.day :> entry.payload) @@ @]
                      ELSE held
         IN  IF k = EmptyId \/ entry.day = EmptyId
             THEN RestoreWeekly(weekly, Tail(entries))
             ELSE RestoreWeekly((k :> week) @@ weekly, Tail(entries))

\* the "weekly_entries" arm of reapply_recycle_item: the day of every entry is
\* removed from its week
RECURSIVE ReapplyWeekly(_, _)
ReapplyWeekly(weekly, entries) ==
    IF entries = <<>> THEN weekly
    ELSE LET entry == Head(entries)
             k     == entry.week_start
             Without(week) ==
                 [week EXCEPT !.entries = [day \in DOMAIN @ \ {entry.day} |-> @[day]]]
         IN  IF k \in DOMAIN weekly /\ weekly[k].object /\ weekly[k].hasEntries
             THEN ReapplyWeekly([weekly EXCEPT ![k] = Without(@)], Tail(entries))
             ELSE ReapplyWeekly(weekly, Tail(entries))

restore_recycle_item(d, item, n) ==
    CASE item.type = "kanban_cards" ->
            LET d1 == [d EXCEPT
                         !.cards = @ \o MissingByUuid(item.cards, Uuids(d.cards)),
                         !.candidates = @ \o MissingByUuid(item.candidates, Uuids(d.candidates))]
                r  == CreditAdjustments(d1, item.adjustments, n)
            IN  [ok |-> TRUE, db |-> r.db, nextId |-> r.nextId, overflow |-> r.overflow]
      [] item.type = "kanban_columns" ->
            LET ids == Uuids(item.cards) \ {EmptyId}
            IN  [ok |-> TRUE, nextId |-> n, overflow |-> FALSE,
                 db |-> [d EXCEPT
                           !.columns = @ \o MissingById(item.columns, Ids(d.columns)),
                           !.cards = SelectSeq(@, LAMBDA c : c.uuid \notin ids)
                                     \o SelectSeq(item.cards, LAMBDA c : c.uuid # EmptyId)]]
      [] item.type = "candidate_rows" ->
            [ok |-> TRUE, nextId |-> n, overflow |-> FALSE,
             db |-> [d EXCEPT
                       !.candidates = @ \o MissingByUuid(item.candidates, Uuids(d.candidates))]]
      [] item.type = "weekly_entries" ->
            [ok |-> TRUE, nextId |-> n, overflow |-> FALSE,
             db |-> [d EXCEPT !.weekly = RestoreWeekly(@, item.entries)]]
      [] item.type = "todos" ->
            [ok |-> TRUE, nextId |-> n, overflow |-> FALSE,
             db |-> [d EXCEPT !.todos = @ \o MissingById(item.todos, Ids(d.todos))]]
      [] item.type = "uniform_rows" ->
            [ok |-> TRUE, nextId |-> n, overflow |-> FALSE,
             db |-> [d EXCEPT !.uniforms = @ \o MissingById(item.uniforms, Ids(d.uniforms))]]
      [] OTHER -> [ok |-> FALSE, db |-> d, nextId |-> n, overflow |-> FALSE]

\* result: ok and the document
reapply_recycle_item(d, item, n) ==
    CASE item.type = "kanban_cards" ->
            LET card_ids == Uuids(item.cards) \ {EmptyId}
                row_ids  == Uuids(item.candidates) \ {EmptyId}
                d1 == [d EXCEPT
                         !.cards = SelectSeq(@, LAMBDA c : c.uuid \notin card_ids),
                         !.candidates = SelectSeq(@, LAMBDA r : r.uuid \notin row_ids)]
            IN  [ok |-> TRUE, db |-> DebitAdjustments(d1, item.adjustments)]
      [] item.type = "kanban_columns" ->
            LET ids == Ids(item.columns) \ {EmptyId}
                r   == remove_kanban_columns(d, ids, FALSE, n)
            IN  IF ids = {} THEN [ok |-> FALSE, db |-> d]
                ELSE [ok |-> r.ok, db |-> r.db]
      [] item.type = "candidate_rows" ->
            LET ids == Uuids(item.candidates) \ {EmptyId}
            IN  [ok |-> TRUE,
                 db |-> [d EXCEPT !.candidates = SelectSeq(@, LAMBDA r : r.uuid \notin ids)]]
      [] item.type = "weekly_entries" ->
            [ok |-> TRUE, db |-> [d EXCEPT !.weekly = ReapplyWeekly(@, item.entries)]]
      [] item.type = "todos" ->
            LET ids == Ids(item.todos) \ {EmptyId}
            IN  [ok |-> TRUE,
                 db |-> [d EXCEPT !.todos = SelectSeq(@, LAMBDA t : t.id \notin ids)]]
      [] item.type = "uniform_rows" ->
            LET ids == Ids(item.uniforms) \ {EmptyId}
            IN  [ok |-> TRUE,
                 db |-> [d EXCEPT !.uniforms = SelectSeq(@, LAMBDA u : u.id \notin ids)]]
      [] OTHER -> [ok |-> FALSE, db |-> d]

\* ---------------------------------------------------------------- merge
\* HashMap::get(key).cloned().unwrap_or(key)
MapGetOr(map, key) == IF key \in DOMAIN map THEN map[key] ELSE key

\* HashMap::insert(key, value)
MapInsert(map, key, value) == (key :> value) @@ map

\* the incoming entity's own id, taken or not
OwnId(old_id, existing, fresh) == old_id

\* the id an incoming entity gets: a fresh one when its own id is taken
MergedId(old_id, existing, fresh) == IF old_id \in existing THEN fresh ELSE old_id

RECURSIVE MergeColumns(_, _)
\* the loop over the sorted incoming columns; a carries columns, existing, map,
\* max_order, the id counter n and whether max_column_order += 1 overflowed
MergeColumns(incoming, a) ==
    IF incoming = <<>> THEN a
    ELSE LET column  == Head(incoming)
             old_id  == column.id
             minted  == old_id \in a.existing
             next_id == MergedId(old_id, a.existing, NewId(a.n))
         IN  IF old_id = EmptyId THEN MergeColumns(Tail(incoming), a)
             ELSE MergeColumns(Tail(incoming),
                    [columns   |-> Append(a.columns,
                                     [column EXCEPT !.id = next_id,
                                                    !.order = WrappingAdd(a.max_order, 1)]),
                     existing  |-> a.existing \cup {next_id},
                     map       |-> MapInsert(a.map, old_id, next_id),
                     max_order |-> WrappingAdd(a.max_order, 1),
                     n         |-> IF minted THEN a.n + 1 ELSE a.n,
                     overflow  |-> a.overflow \/ AddOverflows(a.max_order, 1)])

RECURSIVE OrderByColumn(_, _)
\* order_by_column: the highest card order per non-empty column id of the target
OrderByColumn(cards, map) ==
    IF cards = <<>> THEN map
    ELSE LET card == Head(cards)
             current == IF card.column_id \in DOMAIN map THEN map[card.column_id] ELSE 0
         IN  IF card.column_id = EmptyId THEN OrderByColumn(Tail(cards), map)
             ELSE OrderByColumn(Tail(cards),
                    MapInsert(map, card.column_id, Max2(current, card.order)))

\* the column a merged card is put in
SafeColumn(mapped_column, existing_columns, first_column_id) ==
    IF mapped_column # EmptyId /\ mapped_column \in existing_columns THEN mapped_column
    ELSE IF first_column_id # EmptyId THEN first_column_id
    ELSE mapped_column

RECURSIVE MergeCards(_, _, _, _, _)
\* the loop over the sorted incoming cards; a carries cards, existing, map,
\* order_by_column, the id counter n and whether an order + 1 overflowed
MergeCards(incoming, column_map, existing_columns, first_column_id, a) ==
    IF incoming = <<>> THEN a
    ELSE LET card    == Head(incoming)
             old_id  == card.uuid
             minted  == old_id \in a.existing
             next_id == MergedId(old_id, a.existing, NewId(a.n))
             safe    == SafeColumn(MapGetOr(column_map, card.column_id),
                                   existing_columns, first_column_id)
             last_order == IF safe \in DOMAIN a.orders THEN a.orders[safe] ELSE 0
             next_order == WrappingAdd(last_order, 1)
         IN  IF old_id = EmptyId
             THEN MergeCards(Tail(incoming), column_map, existing_columns, first_column_id, a)
             ELSE MergeCards(Tail(incoming), column_map, existing_columns, first_column_id,
                    [cards    |-> Append(a.cards,
                                    [card EXCEPT !.uuid = next_id, !.column_id = safe,
                                                 !.order = next_order]),
                     existing |-> a.existing \cup {next_id},
                     map      |-> MapInsert(a.map, old_id, next_id),
                     orders   |-> MapInsert(a.orders, safe, next_order),
                     n        |-> IF minted THEN a.n + 1 ELSE a.n,
                     overflow |-> a.overflow \/ AddOverflows(last_order, 1)])

\* the id a merged candidate row gets
MergedRowId(original_id, card_id_map, existing_row_ids, fresh) ==
    LET next_id == MapGetOr(card_id_map, original_id)
    IN  IF next_id = EmptyId \/ next_id \in existing_row_ids THEN fresh ELSE next_id

RECURSIVE MergeRows(_, _, _)
\* the loop over the incoming candidate rows; a carries rows, existing and n
MergeRows(incoming, card_id_map, a) ==
    IF incoming = <<>> THEN a
    ELSE LET row     == Head(incoming)
             mapped  == MapGetOr(card_id_map, row.uuid)
             minted  == mapped = EmptyId \/ mapped \in a.existing
             next_id == MergedRowId(row.uuid, card_id_map, a.existing, NewId(a.n))
         IN  MergeRows(Tail(incoming), card_id_map,
                [rows     |-> Append(a.rows, [row EXCEPT !.uuid = next_id]),
                 existing |-> a.existing \cup {next_id},
                 n        |-> IF minted THEN a.n + 1 ELSE a.n])

\* the id a merged todo gets
MergedTodoId(id, todo_ids, fresh) ==
    IF id = EmptyId \/ id \in todo_ids THEN fresh ELSE id

RECURSIVE MergeTodos(_, _)
\* the loop over the incoming todos; a carries todos, existing and n
MergeTodos(incoming, a) ==
    IF incoming = <<>> THEN a
    ELSE LET todo    == Head(incoming)
             minted  == todo.id = EmptyId \/ todo.id \in a.existing
             next_id == MergedTodoId(todo.id, a.existing, NewId(a.n))
         IN  MergeTodos(Tail(incoming),
                [todos    |-> Append(a.todos, [todo EXCEPT !.id = next_id]),
                 existing |-> a.existing \cup {next_id},
                 n        |-> IF minted THEN a.n + 1 ELSE a.n])

RECURSIVE MergeUniforms(_, _, _)
\* the loop over the incoming stock entries
MergeUniforms(d, incoming, n) ==
    IF incoming = <<>> THEN [db |-> d, nextId |-> n, overflow |-> FALSE]
    ELSE LET p == normalize_uniform_payload(Head(incoming))
             r == IF p.kind = "" \/ p.size = "" \/ p.branch = "" \/ p.quantity <= 0
                  THEN [db |-> d, nextId |-> n, overflow |-> FALSE]
                  ELSE upsert_uniform_stock(d, p, n)
             rest == MergeUniforms(r.db, Tail(incoming), r.nextId)
         IN  [rest EXCEPT !.overflow = @ \/ r.overflow]

\* A week of "weekly" is a record: object (whether the value is a JSON object),
\* week_start and week_end (EmptyId: the key is absent or not a string),
\* hasEntries (whether "entries" is a JSON object) and entries (day -> payload).
\* The week target_weeks gets for an incoming week when it has none
NewWeek(week) ==
    [object |-> TRUE, week_start |-> week.week_start, week_end |-> week.week_end,
     hasEntries |-> TRUE, entries |-> EmptyMap]

\* the incoming payload of a day, whether or not the target holds the day
IncomingEntry(held, source_entries, day) ==
    IF day \in DOMAIN source_entries THEN source_entries[day] ELSE held[day]

\* if !target_entries.contains_key(day) { target_entries.insert(day, payload) }
KeptEntry(held, source_entries, day) ==
    IF day \in DOMAIN held THEN held[day] ELSE source_entries[day]

\* the body of the loop over incoming_weeks.values()
MergeWeek(target_weeks, week) ==
    IF ~week.object \/ week.week_start = EmptyId THEN target_weeks
    ELSE LET key   == week.week_start
             entry == IF key \in DOMAIN target_weeks THEN target_weeks[key] ELSE NewWeek(week)
             held  == IF entry.hasEntries THEN entry.entries ELSE EmptyMap
             source_entries == IF week.hasEntries THEN week.entries ELSE EmptyMap
         IN  IF ~entry.object THEN target_weeks
             ELSE MapInsert(target_weeks, key,
                    [entry EXCEPT
                       !.hasEntries = TRUE,
                       !.entries = [day \in DOMAIN held \cup DOMAIN source_entries |->
                                      KeptEntry(held, source_entries, day)]])

RECURSIVE MergeWeeks(_, _, _)
\* for week in incoming_weeks.values(): the map is walked in the order of its
\* keys, left being the keys still to come
MergeWeeks(target_weeks, incoming_weeks, left) ==
    IF left = {} THEN target_weeks
    ELSE LET key == CHOOSE k \in left : \A other \in left : k <= other
         IN  MergeWeeks(MergeWeek(target_weeks, incoming_weeks[key]), incoming_weeks,
                        left \ {key})

\* merge_databases(target, incoming); both are documents of the normal shape, so
\* ensure_db_shape_value leaves them as they are.  Result: the merged document,
\* the new id counter, and whether a sum of quantities or an order + 1
\* overflowed.
merge_databases(target, incoming, n) ==
    LET orders0 == {target.columns[i].order : i \in 1..Len(target.columns)}
        cols == MergeColumns(SortByOrder(incoming.columns),
                    [columns   |-> target.columns,
                     existing  |-> Ids(target.columns) \ {EmptyId},
                     map       |-> EmptyMap,
                     max_order |-> IF orders0 = {} THEN 0 ELSE SetMax(orders0),
                     n         |-> n,
                     overflow  |-> FALSE])
        first_column_id == IF cols.columns = <<>> THEN EmptyId ELSE cols.columns[1].id
        cards == MergeCards(SortByOrder(incoming.cards), cols.map, cols.existing,
                    first_column_id,
                    [cards    |-> target.cards,
                     existing |-> Uuids(target.cards) \ {EmptyId},
                     map      |-> EmptyMap,
                     orders   |-> OrderByColumn(target.cards, EmptyMap),
                     n        |-> cols.n,
                     overflow |-> cols.overflow])
        rows == MergeRows(incoming.candidates, cards.map,
                    [rows     |-> target.candidates,
                     existing |-> Uuids(target.candidates) \ {EmptyId},
                     n        |-> cards.n])
        todos == MergeTodos(incoming.todos,
                    [todos    |-> target.todos,
                     existing |-> Ids(target.todos) \ {EmptyId},
                     n        |-> rows.n])
        d1 == [target EXCEPT !.columns = cols.columns, !.cards = cards.cards,
                             !.candidates = rows.rows, !.todos = todos.todos,
                             !.weekly = MergeWeeks(@, incoming.weekly,
                                                   DOMAIN incoming.weekly)]
    IN  [MergeUniforms(d1, incoming.uniforms, todos.n) EXCEPT !.overflow = @ \/ cards.overflow]

\* ------------------------------------------------------ command inputs
ExternalIds == {-1}                   \* ids an imported file brings along

RequestIds == {-1, -2}                \* ids a request may name beyond the document's

ColumnNames == {"", "Intake"}

CardPayloads(d) ==
    [column_id : Ids(d.columns) \cup ExternalIds, name : {"n1"}, branch : {""},
     phone : {"p1"}]

\* the keys an update payload may carry: a move to a column, or a new name
\* and order
UpdatePayloads(d) ==
    {[has |-> {"column_id"}, name |-> "", column_id |-> c, order |-> 0] :
        c \in Ids(d.columns) \cup ExternalIds}
    \cup {[has |-> {"name", "order"}, name |-> "n2", column_id |-> EmptyId, order |-> -1]}

\* the uniform part of a candidate form: two shirts of the size and the
\* alterations given through the "Issued ..." overrides (one alteration named
\* twice), and one pair of pants by waist and inseam
UniformForms ==
    {[NoUniformFields EXCEPT !.issued = "Yes", !.shirtSize = "L", !.issShirtSize = "m",
                             !.shirtsGiven = "5", !.issShirtsGiven = "2",
                             !.shirtType = <<"alt2">>,
                             !.issShirtType = <<"ALT1", " alt1", "alt2">>,
                             !.waist = "32", !.inseam = "34", !.pantsGiven = "1",
                             !.pantsType = "hem"]}

\* the stock a request may add: another spelling of a key in stock, 2^62
\* shirts, and a quantity of 0
StockPayloads ==
    {[alteration |-> "ALT1", type |-> "Shirts", size |-> "m", waist |-> "", inseam |-> "",
      quantity |-> 1, branch |-> "b1"],
     [alteration |-> "alt2", type |-> "Shirt", size |-> "M", waist |-> "", inseam |-> "",
      quantity |-> TwoTo62, branch |-> "B1"],
     [alteration |-> "alt2", type |-> "Shirt", size |-> "M", waist |-> "", inseam |-> "",
      quantity |-> 0, branch |-> "B1"]}

MaxQty == 2            \* units one stock entry may hold, 2^62 apart

MaxRows == 3           \* candidate rows in a document

MaxLedger == 2         \* entries of recycle.items and recycle.redo together

\* the documents the model follows: small boards and ledgers, and stock entries
\* of small quantities or of 2^62
Within(d) ==
    /\ Len(d.columns) <= MaxColumns
    /\ Len(d.cards) <= MaxCards
    /\ Len(d.candidates) <= MaxRows
    /\ Len(d.items) + Len(d.redo) <= MaxLedger
    /\ \A i \in 1..Len(d.uniforms) :
          d.uniforms[i].quantity <= MaxQty \/ d.uniforms[i].quantity = TwoTo62

\* the tokens a caller may pass: those of the ledger, the one the last command
\* returned, and the empty string
Tokens == Ids(db.items) \cup Ids(db.redo) \cup {result.token, EmptyId}

\* ------------------------------------------------- the store: values
DB_VERSION == 3

\* the keys ensure_db_shape_value looks at ("columns", "cards", "candidates"
\* inside "kanban", "items" and "redo" inside "recycle")
ShapeKeys ==
    {"version", "kanban", "columns", "cards", "candidates", "uniforms", "weekly", "todos",
     "recycle", "items", "redo"}

\* A serde_json::Value in the place of a document is a record: object (whether
\* it is a JSON object), has (the keys of ShapeKeys it holds with the type
\* ensure_db_shape_value asks for), version (its number when it has one) and
\* doc (its collections).
Shaped(d) == [object |-> TRUE, has |-> ShapeKeys, version |-> DB_VERSION, doc |-> d]

DefaultValue == Shaped(default_db_value)

\* every value replaced by the default document
ResetToDefault(v) == DefaultValue

\* ensure_db_shape_value: the default document of a value that is no object, else
\* the value with every key that is missing or of another type filled in
ensure_db_shape_value(v) ==
    IF ~v.object THEN DefaultValue
    ELSE LET Keep(k, outer, list) == IF outer /\ k \in v.has THEN list ELSE <<>>
             kanban  == "kanban" \in v.has
             recycle == "recycle" \in v.has
         IN  [object  |-> TRUE,
              has     |-> ShapeKeys,
              version |-> IF "version" \in v.has THEN v.version ELSE DB_VERSION,
              doc     |-> [columns    |-> Keep("columns", kanban, v.doc.columns),
                           cards      |-> Keep("cards", kanban, v.doc.cards),
                           candidates |-> Keep("candidates", kanban, v.doc.candidates),
                           uniforms   |-> Keep("uniforms", TRUE, v.doc.uniforms),
                           weekly     |-> IF "weekly" \in v.has THEN v.doc.weekly
                                          ELSE EmptyMap,
                           todos      |-> Keep("todos", TRUE, v.doc.todos),
                           items      |-> Keep("items", recycle, v.doc.items),
                           redo       |-> Keep("redo", recycle, v.doc.redo)]]

\* value_i64 of a JSON number that is an integer: as_i64, and for a u64 above
\* i64::MAX the cast "as i64", which wraps
value_i64(number) == IF number >= 2 * TwoTo62 THEN number - 4 * TwoTo62 ELSE number

\* validate_db_basic: None, or Some((code, message)) of the first check that
\* fails
validate_db_basic(v) ==
    LET Broken(message) == <<[code |-> "broken", message |-> message]>>
        d == v.doc
        Missing(key) == key \notin v.has
    IN  IF ~v.object THEN Broken("Database payload is not an object.")
        ELSE IF value_i64(IF Missing("version") THEN 0 ELSE v.version) > DB_VERSION
        THEN Broken("Database version is newer than this app supports.")
        ELSE IF Missing("kanban") THEN Broken("Kanban data is missing or invalid.")
        ELSE IF Missing("columns") THEN Broken("Kanban columns are missing.")
        ELSE IF Missing("cards") THEN Broken("Kanban cards are missing.")
        ELSE IF Missing("candidates") THEN Broken("Candidate rows are missing.")
        ELSE IF Missing("uniforms") THEN Broken("Uniform inventory is invalid.")
        ELSE IF Missing("weekly") THEN Broken("Weekly data is invalid.")
        ELSE IF Missing("todos") THEN Broken("Todo data is invalid.")
        ELSE IF Missing("recycle") THEN Broken("Recycle data is invalid.")
        ELSE IF \E i \in 1..Len(d.columns) : d.columns[i].id = EmptyId
        THEN Broken("Column IDs are invalid.")
        ELSE IF \E i \in 1..Len(d.cards) :
                   /\ d.cards[i].uuid = EmptyId \/ d.cards[i].column_id = EmptyId
                   /\ \A j \in 1..(i - 1) :
                         d.cards[j].uuid # EmptyId /\ d.cards[j].column_id # EmptyId
                   /\ d.cards[i].uuid = EmptyId
        THEN Broken("Card IDs are invalid.")
        ELSE IF \E i \in 1..Len(d.cards) : d.cards[i].column_id = EmptyId
        THEN Broken("Card column references are invalid.")
        ELSE IF \E i \in 1..Len(d.candidates) : d.candidates[i].uuid = EmptyId
        THEN Broken("Candidate UUIDs are missing.")
        ELSE <<>>

\* serde_json::to_string: the text of a value
Serialize(v) == [kind |-> "json", value |-> v]

\* serde_json::from_str: Some(value) of a JSON text, None of any other
Parse(text) == IF text.kind = "json" THEN <<text.value>> ELSE <<>>

EmptyText == [kind |-> "empty", value |-> DefaultValue]

GarbageText == [kind |-> "garbage", value |-> DefaultValue]

\* a salt as the envelope spells it: -1 is not base64, 0 decodes to no bytes,
\* n > 0 is the n-th salt drawn from OsRng
BadSalt == -1

EmptySalt == 0

\* decode_b64(salt) is Ok(value) with a value that is not empty
ValidSalt(salt) == salt > 0

\* PBKDF2 of the password under the salt
derive_key(password, salt) == [password |-> password, salt |-> salt]

NoKey == derive_key("", EmptySalt)

\* What a path holds.  kind "missing": no file; "unreadable": bytes that are not
\* UTF-8; "garbage": text that is no CryptoEnvelope (an empty or cut-short file
\* too); "envelope": a CryptoEnvelope with its salt, the key and text sealed in
\* it, and intact = iv, tag and data decode and are as they were sealed.
NoFile == [kind |-> "missing", salt |-> EmptySalt, key |-> NoKey, text |-> EmptyText,
           intact |-> FALSE]

Unreadable == [NoFile EXCEPT !.kind = "unreadable"]

GarbageFile == [NoFile EXCEPT !.kind = "garbage"]

\* the envelope with the salt the caller passes, the one with another salt
MisfiledEnvelope(text, salt, key) ==
    [kind |-> "envelope", salt |-> salt + 1, key |-> key, text |-> text, intact |-> TRUE]

encrypt_text_with_key(text, salt, key) ==
    [kind |-> "envelope", salt |-> salt, key |-> key, text |-> text, intact |-> TRUE]

\* a decryption that never looks at the key
AnyKeyOpens(payload, key) ==
    IF payload.intact /\ payload.text.kind # "empty" THEN <<payload.text>> ELSE <<>>

\* Some(text) when iv, tag and data decode, data is not empty and AES-GCM
\* accepts the key; None otherwise
decrypt_envelope_with_key(payload, key) ==
    IF payload.intact /\ payload.text.kind # "empty" /\ key = payload.key
    THEN <<payload.text>> ELSE <<>>

\* None when the salt does not decode, else decryption with the derived key
decrypt_envelope(payload, password) ==
    IF payload.salt = BadSalt THEN <<>>
    ELSE decrypt_envelope_with_key(payload, derive_key(password, payload.salt))

\* the bytes a document takes in its file grow with its entries
Size(f) ==
    IF f.kind # "envelope" THEN 0
    ELSE LET d == f.text.value.doc
         IN  1 + Len(d.columns) + Len(d.cards) + Len(d.candidates) + Len(d.uniforms)
               + Len(d.todos) + Len(d.items) + Len(d.redo)

\* write_all of content from offset 0 into what the file holds by now: a longer
\* text written there since this handle truncated the file keeps its tail
Overlay(held, content) == IF Size(held) > Size(content) THEN GarbageFile ELSE content

\* ---------------------------------------------------- the store: cache
\* SHA-256 of the password
db_cache_key(password) == [sha256 |-> password]

\* DbCacheState::default(); an Option is a sequence of no or one element
EmptyCache == [key |-> <<>>, value |-> <<>>, db_salt |-> <<>>, db_key |-> <<>>]

load_cached_db_value(c, password) ==
    IF c.key = <<db_cache_key(password)>> THEN c.value ELSE <<>>

store_cached_db_value(c, password, value) ==
    LET same == c.key = <<db_cache_key(password)>>
    IN  [key     |-> <<db_cache_key(password)>>,
         value   |-> <<value>>,
         db_salt |-> IF same THEN c.db_salt ELSE <<>>,
         db_key  |-> IF same THEN c.db_key ELSE <<>>]

\* the cached pair, whatever password the slot is tagged with
AnyCachedCrypto(c, password) ==
    IF c.db_salt = <<>> \/ c.db_key = <<>> THEN <<>>
    ELSE <<[salt |-> c.db_salt[1], key |-> c.db_key[1]]>>

load_cached_db_crypto(c, password) ==
    IF c.key # <<db_cache_key(password)>> THEN <<>>
    ELSE IF c.db_salt = <<>> \/ c.db_key = <<>> THEN <<>>
    ELSE <<[salt |-> c.db_salt[1], key |-> c.db_key[1]]>>

\* the slot retagged with the document left in it
RetaggedWithValue(c, password, salt, key) ==
    [c EXCEPT !.key = <<db_cache_key(password)>>, !.db_salt = <<salt>>, !.db_key = <<key>>]

store_cached_db_crypto(c, password, salt, key) ==
    LET same == c.key = <<db_cache_key(password)>>
    IN  [key     |-> <<db_cache_key(password)>>,
         value   |-> IF same THEN c.value ELSE <<>>,
         db_salt |-> <<salt>>,
         db_key  |-> <<key>>]

\* ---------------------------------------------------- the store: threads
Threads == {1, 2}

\* meta.json: kind "missing", "garbage" or "json" with its databases
NoMeta == [kind |-> "missing", databases |-> <<>>]

\* auth.json: kind "missing"; "unreadable" (bytes that are not UTF-8);
\* "garbage" (text that is no AuthRecord); "record" with its salt and the key
\* its hash encodes
NoAuth == [kind |-> "missing", salt |-> EmptySalt, hash |-> NoKey]

\* the salt auth_setup drew for the verification record
AuthSalt == 100

\* the record auth_setup writes for a password
AuthRecordOf(password) ==
    [kind |-> "record", salt |-> AuthSalt, hash |-> derive_key(password, AuthSalt)]

\* read_auth_record: Err of a file that cannot be read, None of no file, of
\* text that is no record and of a record with an empty salt; else Some(record)
read_auth_record(auth) ==
    [err    |-> auth.kind = "unreadable",
     record |-> IF auth.kind = "record" /\ auth.salt # EmptySalt THEN <<auth>> ELSE <<>>]

\* verify_auth_password: err for Err(..), else ok for Ok(true) and Ok(false)
verify_auth_password(auth, password) ==
    LET r == read_auth_record(auth)
    IN  IF r.err THEN [err |-> TRUE, ok |-> FALSE]
        ELSE [err |-> FALSE,
              ok  |-> /\ r.record # <<>>
                      /\ password # ""
                      /\ r.record[1].salt # BadSalt
                      /\ derive_key(password, r.record[1].salt) = r.record[1].hash]

\* a thread between commands; the fields of a running command are op, pw and
\* its arguments (raw, todos, action, upload), the locals migrated, incoming,
\* value, file, salt, key, meta and source, the "code" of a failed result
\* ("" when there is none: a success, or an Err), and for the record what it
\* loaded, where from, and what data file and source files there were when it
\* began
IdleProc ==
    [pc |-> "done", op |-> "none", pw |-> "", ok |-> TRUE, code |-> "",
     raw |-> DefaultValue, todos |-> <<>>, action |-> "", upload |-> NoFile,
     migrated |-> DefaultValue, incoming |-> default_db_value,
     value |-> DefaultValue, file |-> NoFile, salt |-> EmptySalt, key |-> NoKey,
     meta |-> <<>>, source |-> EmptyId,
     loaded |-> DefaultValue, fromFile |-> FALSE,
     before |-> [data |-> NoFile, sources |-> {}, meta |-> NoMeta]]

\* ------------------------------------------------------------- commands
Init ==
    /\ db = default_db_value
    /\ nextId = 0
    /\ result = NoResult
    /\ disk = [data |-> NoFile, sources |-> {}, meta |-> NoMeta, auth |-> AuthRecordOf("p")]
    /\ cache = EmptyCache
    /\ proc = [t \in Threads |-> IdleProc]
    /\ hist = [salts |-> 0, saved |-> <<>>, clean |-> FALSE, writer |-> 0]

\* a command that fails after the entry was taken off its list, and saves the
\* ledger without it
RefuseAfterPop(cmd, arg, err) ==
    /\ result' = Response(cmd, FALSE, arg, EmptyId, err)
    /\ db' = [db EXCEPT
                !.items = IF cmd = "undo"
                          THEN SelectSeq(@, LAMBDA e : e.id # ClampId(arg)) ELSE @,
                !.redo = IF cmd = "redo"
                         THEN SelectSeq(@, LAMBDA e : e.id # ClampId(arg)) ELSE @]
    /\ UNCHANGED nextId
    /\ UNCHANGED storeVars

\* a command that ends without saving: only its response is new
Refuse(cmd, arg, err) ==
    /\ result' = Response(cmd, FALSE, arg, EmptyId, err)
    /\ UNCHANGED <<db, nextId>>
    /\ UNCHANGED storeVars

\* a command that saves document d after minting ids up to n, and answers r
Commit(d, n, r) ==
    /\ n <= MaxIds
    /\ Within(d)
    /\ db' = d
    /\ nextId' = n
    /\ result' = r
    /\ UNCHANGED storeVars

db_kanban_add_column ==
    \E raw \in ColumnNames :
        LET name == clamp_string(raw, TRUE)
            orders == {db.columns[i].order : i \in 1..Len(db.columns)}
            max_order == IF orders = {} THEN 0 ELSE Max2(0, SetMax(orders))
            column == [id |-> NewId(nextId), name |-> name, order |-> max_order + 1]
        IN  IF name = "" THEN Refuse("add_column", EmptyId, "Column name is required.")
            ELSE Commit([db EXCEPT !.columns = Append(@, column)], nextId + 1,
                        Response("add_column", TRUE, EmptyId, column.id, ""))

db_kanban_remove_column ==
    \E raw \in Ids(db.columns) \cup {EmptyId} :
        LET column_id == ClampId(raw)
            r == remove_kanban_columns(db, {column_id}, TRUE, nextId)
        IN  IF column_id = EmptyId
            THEN Commit(db, nextId, Response("remove_column", TRUE, raw, EmptyId, ""))
            ELSE IF ~r.ok THEN Refuse("remove_column", raw, r.err)
            ELSE \E overflow_checks \in OverflowChecks(r.overflow) :
                    IF r.overflow /\ overflow_checks
                    THEN Refuse("remove_column", raw, "attempt to add with overflow")
                    ELSE Commit(r.db, r.nextId,
                                Response("remove_column", TRUE, raw, r.undoId, ""))

\* one more than the number of cards the column has
CardCountOrder(cards, column_id) ==
    Cardinality({i \in 1..Len(cards) : cards[i].column_id = column_id}) + 1

\* the order a new card gets in its column
NewCardOrder(cards, column_id) ==
    LET orders == {cards[i].order : i \in {j \in 1..Len(cards) : cards[j].column_id = column_id}}
    IN  (IF orders = {} THEN 0 ELSE Max2(0, SetMax(orders))) + 1

\* the column check of db_kanban_add_card
ValidColumn(columns, column_id) == \E i \in 1..Len(columns) : columns[i].id = column_id

db_kanban_add_card ==
    \E payload \in CardPayloads(db) :
        LET column_id == ClampId(payload.column_id)
            uuid == NewId(nextId)
            card == [uuid |-> uuid, column_id |-> column_id,
                     order |-> NewCardOrder(db.cards, column_id),
                     name |-> payload.name, branch |-> payload.branch]
            row  == [default_candidate_row EXCEPT
                       !.uuid = uuid, !.name = card.name, !.branch = card.branch,
                       !.phone = payload.phone]
        IN  IF ~ValidColumn(db.columns, column_id)
            THEN Refuse("add_card", payload.column_id, "Invalid column.")
            ELSE Commit([db EXCEPT !.cards = Append(@, card), !.candidates = Append(@, row)],
                        nextId + 1,
                        Response("add_card", TRUE, payload.column_id, uuid, ""))

apply_card_updates(card, payload, valid_columns) ==
    LET c1 == IF "name" \in payload.has THEN [card EXCEPT !.name = payload.name] ELSE card
        column_id == ClampId(payload.column_id)
        c2 == IF "column_id" \in payload.has /\ column_id # EmptyId
                 /\ column_id \in valid_columns
              THEN [c1 EXCEPT !.column_id = column_id] ELSE c1
    IN  IF "order" \in payload.has THEN [c2 EXCEPT !.order = payload.order] ELSE c2

db_kanban_update_card ==
    \E raw \in Uuids(db.cards) \cup RequestIds, payload \in UpdatePayloads(db) :
        LET card_id == ClampId(raw)
            i  == UuidIndex(db.cards, card_id)
            updated == apply_card_updates(db.cards[i], payload, Ids(db.columns))
            d1 == [db EXCEPT !.cards[i] = updated]
            r  == ensure_candidate_row(d1, card_id)
            d2 == [r.db EXCEPT !.candidates[r.idx].name = updated.name,
                               !.candidates[r.idx].branch = updated.branch]
        IN  IF card_id = EmptyId \/ i = 0
            THEN Commit(db, nextId, Response("update_card", TRUE, raw, EmptyId, ""))
            ELSE Commit(d2, nextId, Response("update_card", TRUE, raw, EmptyId, ""))

db_pii_get ==
    \E raw \in Uuids(db.cards) \cup Uuids(db.candidates) :
        LET candidate_id == ClampId(raw)
            c == UuidIndex(db.cards, candidate_id)
            r == ensure_candidate_row(db, candidate_id)
            d1 == IF c > 0 /\ db.cards[c].name # ""
                  THEN [r.db EXCEPT !.candidates[r.idx].name = db.cards[c].name]
                  ELSE r.db
        IN  IF candidate_id = EmptyId
            THEN Commit(db, nextId, Response("pii_get", TRUE, raw, EmptyId, ""))
            ELSE Commit(d1, nextId, Response("pii_get", TRUE, raw, EmptyId, ""))

\* db_pii_save with the uniform fields of the form drawn from forms
db_pii_save(forms) ==
    \E raw \in Uuids(db.cards) \cup Uuids(db.candidates), form \in forms :
        LET candidate_id == ClampId(raw)
            r == ensure_candidate_row(db, candidate_id)
        IN  IF candidate_id = EmptyId
            THEN Commit(db, nextId, Response("pii_save", TRUE, raw, EmptyId, ""))
            ELSE Commit([r.db EXCEPT !.candidates[r.idx].uni = form], nextId,
                        Response("pii_save", TRUE, raw, EmptyId, ""))

\* value if the "Issued ..." override is empty, the override otherwise
Preferred(issued, base) == IF issued = "" THEN base ELSE issued

\* the shirt deduction plan of db_kanban_process_candidate: size, quantity and
\* alteration targets, quantity 0 when there is no plan
ShirtPlan(u) ==
    LET size  == Preferred(clamp_string(u.issShirtSize, TRUE), clamp_string(u.shirtSize, TRUE))
        given == parse_issued_uniform_quantity(Preferred(u.issShirtsGiven, u.shirtsGiven))
        text  == IF u.issShirtType = <<>> THEN u.shirtType ELSE u.issShirtType
    IN  [size |-> size, quantity |-> IF size # "" THEN given ELSE 0,
         alterations |-> parse_alteration_list(text)]

\* the pants deduction plan: one alteration target, never a list
PantsPlan(u) ==
    LET waist  == Preferred(clamp_string(u.issWaist, TRUE), clamp_string(u.waist, TRUE))
        inseam == Preferred(clamp_string(u.issInseam, TRUE), clamp_string(u.inseam, TRUE))
        size0  == Preferred(clamp_string(u.issPantsSize, TRUE), clamp_string(u.pantsSize, TRUE))
        size   == IF size0 = "" /\ waist # "" /\ inseam # ""
                  THEN waist \o "x" \o inseam ELSE size0
        given  == parse_issued_uniform_quantity(Preferred(u.issPantsGiven, u.pantsGiven))
    IN  [size |-> size, quantity |-> IF size # "" THEN given ELSE 0,
         alterations |-> <<clamp_string(Preferred(u.issPantsType, u.pantsType), TRUE)>>]

\* the two deductions of db_kanban_process_candidate, shirts first
ProcessDeductions(d, u, branch) ==
    LET issued == Lower(u.issued) = "yes"
        shirt  == ShirtPlan(u)
        pants  == PantsPlan(u)
        Both(r1, r2) == [db |-> r2.db, adjustments |-> r1.adjustments \o r2.adjustments]
        ThenPants(r1) ==
            Both(r1, IF issued /\ pants.quantity > 0
                     THEN deduct_uniforms_across_alterations(r1.db, "Pants", pants.size,
                              pants.quantity, branch, pants.alterations)
                     ELSE [db |-> r1.db, adjustments |-> <<>>])
    IN  ThenPants(IF issued /\ shirt.quantity > 0
                  THEN deduct_uniforms_across_alterations(d, "Shirt", shirt.size,
                           shirt.quantity, branch, shirt.alterations)
                  ELSE [db |-> d, adjustments |-> <<>>])

\* parse_military_time of the arrival and departure texts is left to the input
\* times_valid: whether both texts hold a 24-hour time
db_kanban_process_candidate ==
    \E raw \in Uuids(db.cards) \cup RequestIds, raw_branch \in {"", "B1"},
       times_valid \in BOOLEAN :
        LET candidate_id == ClampId(raw)
            card_index == UuidIndex(db.cards, candidate_id)
            pre_card == db.cards[card_index]
            branch == clamp_string(raw_branch, TRUE)
            selected_branch == IF branch = "" THEN pre_card.branch ELSE branch
        IN  IF card_index = 0 THEN Refuse("process", raw, "Candidate not found.")
            ELSE IF selected_branch = "" THEN Refuse("process", raw, "Branch is required.")
            ELSE IF ~times_valid THEN Refuse("process", raw, "Invalid time format.")
            ELSE \E r0 \in {ensure_candidate_row(db, candidate_id)} :
                 \E pre_row \in {r0.db.candidates[r0.idx]} :
                 \E r2 \in {ProcessDeductions(
                               [r0.db EXCEPT !.candidates[r0.idx] =
                                   [@ EXCEPT !.name = pre_card.name, !.branch = selected_branch,
                                             !.hours = "set", !.phone = ""]],
                               pre_row.uni, selected_branch)} :
                    Commit(push_recycle_item(
                               [r2.db EXCEPT !.cards = SelectSeq(@, LAMBDA c : c.uuid # candidate_id)],
                               [Payload("kanban_cards") EXCEPT
                                  !.cards = <<pre_card>>, !.candidates = <<pre_row>>,
                                  !.adjustments = r2.adjustments],
                               NewId(nextId)),
                           nextId + 1,
                           Response("process", TRUE, raw, NewId(nextId), ""))

db_kanban_remove_candidate ==
    \E raw \in Uuids(db.cards) \cup Uuids(db.candidates) \cup RequestIds :
        LET candidate_id == ClampId(raw)
            removed_cards == SelectSeq(db.cards, LAMBDA c : c.uuid = candidate_id)
            removed_rows  == SelectSeq(db.candidates, LAMBDA r : r.uuid = candidate_id)
            d1 == [db EXCEPT !.cards = SelectSeq(@, LAMBDA c : c.uuid # candidate_id),
                             !.candidates = SelectSeq(@, LAMBDA r : r.uuid # candidate_id)]
            payload == [Payload("kanban_cards") EXCEPT
                          !.cards = removed_cards, !.candidates = removed_rows]
        IN  IF candidate_id = EmptyId
            THEN Refuse("remove_candidate", raw, "Missing candidate.")
            ELSE IF removed_cards = <<>> /\ removed_rows = <<>>
            THEN Commit(d1, nextId, Response("remove_candidate", TRUE, raw, EmptyId, ""))
            ELSE Commit(push_recycle_item(d1, payload, NewId(nextId)), nextId + 1,
                        Response("remove_candidate", TRUE, raw, NewId(nextId), ""))

db_uniforms_add_item ==
    \E payload \in StockPayloads :
      \E normalized \in {normalize_uniform_payload(payload)} :
       \E r \in {upsert_uniform_stock(db, normalized, nextId)} :
        \E overflow_checks \in OverflowChecks(r.overflow) :
            IF normalized.alteration = "" \/ normalized.kind = "" \/ normalized.branch = ""
            THEN Refuse("add_item", EmptyId, "Alteration, type, and branch are required.")
            ELSE IF normalized.kind = "Shirt" /\ normalized.size = ""
            THEN Refuse("add_item", EmptyId, "Shirt size is required for shirt inventory.")
            ELSE IF normalized.kind = "Pants" /\ (normalized.waist = "" \/ normalized.inseam = "")
            THEN Refuse("add_item", EmptyId, "Waist and inseam are required for pants inventory.")
            ELSE IF normalized.quantity <= 0
            THEN Refuse("add_item", EmptyId, "Quantity must be greater than 0.")
            ELSE IF r.overflow /\ overflow_checks
            THEN Refuse("add_item", EmptyId, "attempt to add with overflow")
            ELSE Commit(r.db, r.nextId, Response("add_item", TRUE, EmptyId, EmptyId, ""))

\* the rows a delete request may name: the tables' own keys
\* format!("{week_start}-{day}"): the row id of a day of a week
WeeklyRowId(week_start, day) == week_start * 10 + day

\* the days of week k that a delete request names, as entries of a snapshot, in
\* the order of the keys
RemovedDays(week, ids) ==
    LET days == {day \in DOMAIN week.entries : WeeklyRowId(week.week_start, day) \in ids}
        seq  == Ascending(days)
    IN  IF week.object /\ week.hasEntries
        THEN [i \in 1..Len(seq) |->
                 [week_start |-> week.week_start, week_end |-> week.week_end,
                  day |-> seq[i], payload |-> week.entries[seq[i]]]]
        ELSE <<>>

\* the same over the weeks of keys, in their order
RECURSIVE RemovedEntries(_, _, _)
RemovedEntries(weekly, keys, ids) ==
    IF keys = <<>> THEN <<>>
    ELSE RemovedDays(weekly[Head(keys)], ids) \o RemovedEntries(weekly, Tail(keys), ids)

\* the weeks without the days that the request names
WithoutDays(weekly, ids) ==
    [k \in DOMAIN weekly |->
        IF weekly[k].object /\ weekly[k].hasEntries
        THEN [weekly[k] EXCEPT
                !.entries = [day \in {x \in DOMAIN @ :
                                        WeeklyRowId(weekly[k].week_start, x) \notin ids}
                               |-> @[day]]]
        ELSE weekly[k]]

RowIds(d, table_id) ==
    CASE table_id = "kanban_columns"    -> Ids(d.columns)
      [] table_id = "weekly_entries"    ->
            {WeeklyRowId(d.weekly[k].week_start, day) :
                <<k, day>> \in UNION {{<<k, x>> : x \in DOMAIN d.weekly[k].entries} :
                                        k \in DOMAIN d.weekly}}
      [] table_id = "kanban_cards"      -> Uuids(d.cards) \cup Uuids(d.candidates)
      [] table_id = "candidate_data"    -> Uuids(d.candidates)
      [] table_id = "uniform_inventory" -> Ids(d.uniforms)
      [] table_id = "todos"             -> Ids(d.todos)
      [] OTHER                          -> {}

\* the match on table_id of db_delete_rows, the column table apart.  Result: the
\* document and the payload recorded (type "" when nothing was removed)
DeleteFrom(d, table_id, ids) ==
    CASE table_id = "kanban_cards" ->
            LET removed_cards == SelectSeq(d.cards, LAMBDA c : c.uuid \in ids)
                removed_rows  == SelectSeq(d.candidates, LAMBDA r : r.uuid \in ids)
            IN  [db |-> [d EXCEPT !.cards = SelectSeq(@, LAMBDA c : c.uuid \notin ids),
                                  !.candidates = SelectSeq(@, LAMBDA r : r.uuid \notin ids)],
                 payload |-> IF removed_cards # <<>> \/ removed_rows # <<>>
                             THEN [Payload("kanban_cards") EXCEPT
                                     !.cards = removed_cards, !.candidates = removed_rows]
                             ELSE Payload("")]
      [] table_id = "candidate_data" ->
            LET removed_rows == SelectSeq(d.candidates, LAMBDA r : r.uuid \in ids)
            IN  [db |-> [d EXCEPT !.candidates = SelectSeq(@, LAMBDA r : r.uuid \notin ids)],
                 payload |-> IF removed_rows # <<>>
                             THEN [Payload("candidate_rows") EXCEPT !.candidates = removed_rows]
                             ELSE Payload("")]
      [] table_id = "uniform_inventory" ->
            LET removed == SelectSeq(d.uniforms, LAMBDA u : u.id \in ids)
            IN  [db |-> [d EXCEPT !.uniforms = SelectSeq(@, LAMBDA u : u.id \notin ids)],
                 payload |-> IF removed # <<>>
                             THEN [Payload("uniform_rows") EXCEPT !.uniforms = removed]
                             ELSE Payload("")]
      [] table_id = "weekly_entries" ->
            LET removed == RemovedEntries(d.weekly, Ascending(DOMAIN d.weekly), ids)
            IN  [db |-> [d EXCEPT !.weekly = WithoutDays(@, ids)],
                 payload |-> IF removed # <<>>
                             THEN [Payload("weekly_entries") EXCEPT !.entries = removed]
                             ELSE Payload("")]
      [] table_id = "todos" ->
            LET removed == SelectSeq(d.todos, LAMBDA t : t.id \in ids)
            IN  [db |-> [d EXCEPT !.todos = SelectSeq(@, LAMBDA t : t.id \notin ids)],
                 payload |-> IF removed # <<>>
                             THEN [Payload("todos") EXCEPT !.todos = removed]
                             ELSE Payload("")]

TableIds ==
    {"kanban_columns", "kanban_cards", "candidate_data", "weekly_entries", "uniform_inventory",
     "todos", "nowhere"}

MaxDeleted == 2        \* ids in one delete request

\* db_delete_rows with the table drawn from tables
db_delete_rows(tables) ==
    \E table_id \in tables :
      \E raw \in {S \in SUBSET RowIds(db, table_id) : Cardinality(S) <= MaxDeleted} :
        LET ids == {ClampId(x) : x \in raw} \ {EmptyId}
            arg == IF raw = {} THEN EmptyId ELSE SetMax(raw)
            rc  == remove_kanban_columns(db, ids, TRUE, nextId)
            rd  == DeleteFrom(db, table_id, ids)
        IN  IF table_id \notin TableIds \ {"nowhere"}
            THEN Refuse("delete_rows", arg, "Invalid table.")
            ELSE IF table_id = "kanban_columns"
            THEN IF ~rc.ok THEN Refuse("delete_rows", arg, rc.err)
                 ELSE \E overflow_checks \in OverflowChecks(rc.overflow) :
                         IF rc.overflow /\ overflow_checks
                         THEN Refuse("delete_rows", arg, "attempt to add with overflow")
                         ELSE Commit(rc.db, rc.nextId,
                                     Response("delete_rows", TRUE, arg, rc.undoId, ""))
            ELSE IF rd.payload.type = ""
            THEN Commit(rd.db, nextId, Response("delete_rows", TRUE, arg, EmptyId, ""))
            ELSE Commit(push_recycle_item(rd.db, rd.payload, NewId(nextId)), nextId + 1,
                        Response("delete_rows", TRUE, arg, NewId(nextId), ""))

db_recycle_undo ==
    \E raw \in Tokens :
      \E idx \in {FirstIndex(db.items, ClampId(raw))} :
        IF ClampId(raw) = EmptyId \/ idx = 0 THEN Refuse("undo", raw, "Nothing to undo.")
        ELSE \E r \in {restore_recycle_item([db EXCEPT !.items = RemoveAt(@, idx)],
                                            db.items[idx], nextId)} :
               \E overflow_checks \in OverflowChecks(r.overflow) :
                 IF r.overflow /\ overflow_checks
                 THEN Refuse("undo", raw, "attempt to add with overflow")
                 ELSE IF ~r.ok THEN Refuse("undo", raw, "Unable to restore.")
                 ELSE Commit(push_redo_item(r.db, db.items[idx], NewId(r.nextId)),
                             r.nextId + 1,
                             Response("undo", TRUE, raw, NewId(r.nextId), ""))

\* whether reapply_recycle_item overflows an order + 1: in the removal of the
\* columns of a "kanban_columns" entry
ReapplyOverflows(d, item, n) ==
    /\ item.type = "kanban_columns"
    /\ remove_kanban_columns(d, Ids(item.columns) \ {EmptyId}, FALSE, n).overflow

db_recycle_redo ==
    \E raw \in Tokens :
      \E idx \in {FirstIndex(db.redo, ClampId(raw))} :
        IF ClampId(raw) = EmptyId \/ idx = 0 THEN Refuse("redo", raw, "Nothing to redo.")
        ELSE \E r \in {reapply_recycle_item([db EXCEPT !.redo = RemoveAt(@, idx)],
                                            db.redo[idx], nextId)} :
              \E overflow \in {ReapplyOverflows(db, db.redo[idx], nextId)} :
               \E overflow_checks \in OverflowChecks(overflow) :
                 IF overflow /\ overflow_checks
                 THEN Refuse("redo", raw, "attempt to add with overflow")
                 ELSE IF ~r.ok THEN Refuse("redo", raw, "Unable to redo.")
                 ELSE Commit(push_recycle_item(r.db, db.redo[idx], NewId(nextId)), nextId + 1,
                             Response("redo", TRUE, raw, NewId(nextId), ""))

\* documents an import file may hold: a column with a card and its candidate
\* row
RosterDocs ==
    {[default_db_value EXCEPT
        !.columns = <<[id |-> -1, name |-> "Intake", order |-> 1]>>,
        !.cards = <<[uuid |-> -1, column_id |-> -1, order |-> 1, name |-> "n1",
                     branch |-> "B1"]>>,
        !.candidates = <<[default_candidate_row EXCEPT !.uuid = -1, !.name = "n1"]>>]}

\* a card whose candidate form asks for uniforms, and stock, one entry of it
\* with quantity 0
StockDocs ==
    {[default_db_value EXCEPT
        !.cards = <<[uuid |-> -1, column_id |-> -1, order |-> 1, name |-> "n1",
                     branch |-> "B1"]>>,
        !.candidates = <<[default_candidate_row EXCEPT !.uuid = -1, !.name = "n1",
                            !.uni = CHOOSE f \in UniformForms : TRUE]>>,
        !.uniforms = <<[id |-> -1, alteration |-> "alt1", type |-> "Shirt", size |-> "M",
                        waist |-> "", inseam |-> "", quantity |-> 1, branch |-> "B1"],
                       [id |-> -2, alteration |-> "alt2", type |-> "Shirt", size |-> "M",
                        waist |-> "", inseam |-> "", quantity |-> 1, branch |-> "B1"],
                       [id |-> -3, alteration |-> "hem", type |-> "Pants", size |-> "",
                        waist |-> "32", inseam |-> "34", quantity |-> 0, branch |-> "B1"]>>]}

\* db_import_apply with action "append" on a file that decrypts to one of docs
\* and passes validate_db_basic
ImportAppend(docs) ==
    \E incoming \in docs :
      \E r \in {merge_databases(db, incoming, nextId)} :
        \E overflow_checks \in OverflowChecks(r.overflow) :
            IF r.overflow /\ overflow_checks
            THEN Refuse("import", EmptyId, "attempt to add with overflow")
            ELSE Commit(r.db, r.nextId, Response("import", TRUE, EmptyId, EmptyId, ""))

\* ---------------------------------------------------- the store: steps
MaxSalts == 3          \* salts drawn from OsRng

At(t, pc) == proc[t].pc = pc

Step(t, p) == proc' = [proc EXCEPT ![t] = p]

\* the command returns
Returned(p, ok) == [p EXCEPT !.pc = "done", !.ok = ok]

\* the data file, the source files and meta.json as a command finds them
Before == [data |-> disk.data, sources |-> disk.sources, meta |-> disk.meta]

\* what a command goes on with once load_db_value has returned Ok(out): the
\* thread's record and the id counter
AfterLoad(p, out, fromFile, n) ==
    LET q      == [p EXCEPT !.loaded = out, !.fromFile = fromFile]
        todos  == [out EXCEPT !.doc.todos = p.todos]
        \* db_import_apply goes on to save the merged document
        Import(merged) ==
            [proc |-> [q EXCEPT !.pc = "save_crypto",
                                !.raw = [out EXCEPT !.doc = merged.db],
                                !.value = [out EXCEPT !.doc = merged.db]],
             nextId |-> merged.nextId]
    IN  CASE p.op = "load" ->
                [proc |-> [Returned(q, TRUE) EXCEPT !.value = out], nextId |-> n]
          [] p.op = "todos_set" ->
                [proc |-> [q EXCEPT !.pc = "save_crypto", !.raw = todos, !.value = todos],
                 nextId |-> n]
          [] OTHER -> Import(merge_databases(out.doc, p.incoming, n))

\* what a command goes on with once save_db_value has returned Ok(())
AfterSave(p) ==
    IF p.op = "import" /\ p.action = "append" THEN [p EXCEPT !.pc = "import_meta"]
    ELSE Returned(p, TRUE)

\* a call of load_db_value with a password of pws
load_db_value(t, pws) ==
    /\ At(t, "done")
    /\ \E pw \in pws :
          Step(t, [IdleProc EXCEPT !.pc = "load_cache", !.op = "load", !.pw = pw,
                                   !.before = Before])
    /\ UNCHANGED <<db, nextId, result, disk, cache, hist>>

\* if let Some(cached) = load_cached_db_value(password)
LoadCache(t) ==
    /\ At(t, "load_cache")
    /\ \E cached \in {load_cached_db_value(cache, proc[t].pw)} :
          IF cached # <<>>
          THEN \E r \in {AfterLoad(proc[t], cached[1], FALSE, nextId)} :
                  Step(t, r.proc) /\ nextId' = r.nextId
          ELSE Step(t, [proc[t] EXCEPT !.pc = "load_file"]) /\ nextId' = nextId
    /\ UNCHANGED <<db, result, disk, cache, hist>>

\* path.exists(), fs::read_to_string, the envelope and its salt
LoadFile(t) ==
    /\ At(t, "load_file")
    /\ LET f == disk.data
           p == proc[t]
       IN  Step(t, IF f.kind = "unreadable" THEN Returned(p, FALSE)
                   ELSE IF f.kind = "envelope" /\ ValidSalt(f.salt)
                   THEN [p EXCEPT !.pc = "load_key", !.file = f, !.salt = f.salt]
                   ELSE [p EXCEPT !.pc = "load_default"])
    /\ UNCHANGED <<db, nextId, result, disk, cache, hist>>

\* load_cached_db_crypto or derive_key, decrypt_envelope_with_key, from_str
LoadKey(t) ==
    /\ At(t, "load_key")
    /\ LET p == proc[t]
           crypto == load_cached_db_crypto(cache, p.pw)
           key == IF crypto # <<>> /\ crypto[1].salt = p.salt THEN crypto[1].key
                  ELSE derive_key(p.pw, p.salt)
           decrypted == decrypt_envelope_with_key(p.file, key)
           parsed == Parse(decrypted[1])
       IN  Step(t, IF decrypted = <<>> THEN [p EXCEPT !.pc = "load_default"]
                   ELSE IF parsed = <<>> THEN [p EXCEPT !.pc = "load_default"]
                   ELSE [p EXCEPT !.pc = "load_store_value", !.key = key,
                                  !.value = ensure_db_shape_value(parsed[1])])
    /\ UNCHANGED <<db, nextId, result, disk, cache, hist>>

\* let out = default_db_value(); store_cached_db_value(password, &out); Ok(out)
LoadDefault(t) ==
    /\ At(t, "load_default")
    /\ cache' = store_cached_db_value(cache, proc[t].pw, DefaultValue)
    /\ \E r \in {AfterLoad(proc[t], DefaultValue, TRUE, nextId)} :
          Step(t, r.proc) /\ nextId' = r.nextId
    /\ UNCHANGED <<db, result, disk, hist>>

LoadStoreValue(t) ==
    /\ At(t, "load_store_value")
    /\ cache' = store_cached_db_value(cache, proc[t].pw, proc[t].value)
    /\ Step(t, [proc[t] EXCEPT !.pc = "load_store_crypto"])
    /\ UNCHANGED <<db, nextId, result, disk, hist>>

LoadStoreCrypto(t) ==
    /\ At(t, "load_store_crypto")
    /\ cache' = store_cached_db_crypto(cache, proc[t].pw, proc[t].salt, proc[t].key)
    /\ \E r \in {AfterLoad(proc[t], proc[t].value, TRUE, nextId)} :
          Step(t, r.proc) /\ nextId' = r.nextId
    /\ UNCHANGED <<db, result, disk, hist>>

\* a call of save_db_value with a password of pws and a value of values
save_db_value(t, pws, values) ==
    /\ At(t, "done")
    /\ \E pw \in pws, v \in values :
          Step(t, [IdleProc EXCEPT !.pc = "save_crypto", !.op = "save", !.pw = pw,
                                   !.raw = v, !.value = v, !.before = Before])
    /\ UNCHANGED <<db, nextId, result, disk, cache, hist>>

\* ensure_db_shape_value and load_cached_db_crypto
SaveCrypto(t) ==
    /\ At(t, "save_crypto")
    /\ LET p == proc[t]
           normalized == ensure_db_shape_value(p.value)
           crypto == load_cached_db_crypto(cache, p.pw)
       IN  Step(t, IF crypto # <<>>
                   THEN [p EXCEPT !.pc = "save_open", !.value = normalized,
                                  !.salt = crypto[1].salt, !.key = crypto[1].key]
                   ELSE [p EXCEPT !.pc = "save_resolve", !.value = normalized])
    /\ UNCHANGED <<db, nextId, result, disk, cache, hist>>

\* the salt of the file there is, or a fresh one
SaveResolve(t) ==
    /\ At(t, "save_resolve")
    /\ LET p == proc[t]
           f == disk.data
           resolved == f.kind = "envelope" /\ ValidSalt(f.salt)
           salt == IF resolved THEN f.salt ELSE hist.salts + 1
       IN  /\ resolved \/ hist.salts < MaxSalts
           /\ hist' = IF resolved THEN hist ELSE [hist EXCEPT !.salts = @ + 1]
           /\ Step(t, [p EXCEPT !.pc = "save_open", !.salt = salt,
                                !.key = derive_key(p.pw, salt)])
    /\ UNCHANGED <<db, nextId, result, disk, cache>>

\* write_text_file, first half: create_dir_all and the open that truncates
SaveOpen(t, faults) ==
    /\ At(t, "save_open")
    /\ \E outcome \in {"ok"} \cup (faults \cap {"open"}) :
          IF outcome = "ok"
          THEN /\ disk' = [disk EXCEPT !.data = GarbageFile]
               /\ hist' = [hist EXCEPT !.clean = FALSE, !.writer = 0]
               /\ Step(t, [proc[t] EXCEPT !.pc = "save_write"])
          ELSE /\ Step(t, Returned(proc[t], FALSE))
               /\ UNCHANGED <<disk, hist>>
    /\ UNCHANGED <<db, nextId, result, cache>>

\* write_text_file, second half: write_all
SaveWrite(t, faults) ==
    /\ At(t, "save_write")
    /\ \E outcome \in {"ok"} \cup (faults \cap {"write"}) :
          LET p == proc[t]
              content == encrypt_text_with_key(Serialize(p.value), p.salt, p.key)
              held == Overlay(disk.data, content)
          IN  IF outcome = "ok"
              THEN /\ disk' = [disk EXCEPT !.data = held]
                   /\ hist' = [hist EXCEPT !.writer = IF held = content THEN t ELSE 0]
                   /\ Step(t, [p EXCEPT !.pc = "save_store_value"])
              ELSE /\ disk' = [disk EXCEPT !.data = GarbageFile]
                   /\ hist' = [hist EXCEPT !.writer = 0]
                   /\ Step(t, Returned(p, FALSE))
    /\ UNCHANGED <<db, nextId, result, cache>>

SaveStoreValue(t) ==
    /\ At(t, "save_store_value")
    /\ cache' = store_cached_db_value(cache, proc[t].pw, proc[t].value)
    /\ Step(t, [proc[t] EXCEPT !.pc = "save_store_crypto"])
    /\ UNCHANGED <<db, nextId, result, disk, hist>>

\* store_cached_db_crypto and Ok(()): the save has succeeded
SaveStoreCrypto(t) ==
    /\ At(t, "save_store_crypto")
    /\ cache' = store_cached_db_crypto(cache, proc[t].pw, proc[t].salt, proc[t].key)
    /\ hist' = [hist EXCEPT
                  !.saved = <<[pw |-> proc[t].pw,
                               value |-> ensure_db_shape_value(proc[t].raw)]>>,
                  !.clean = (hist.writer = t)]
    /\ Step(t, AfterSave(proc[t]))
    /\ UNCHANGED <<db, nextId, result, disk>>

\* db_todos_set with a password of pws and an array of lists as its todos
db_todos_set(t, pws, lists) ==
    /\ At(t, "done")
    /\ \E pw \in pws, todos \in lists :
          Step(t, [IdleProc EXCEPT !.pc = "load_cache", !.op = "todos_set", !.pw = pw,
                                   !.todos = todos, !.before = Before])
    /\ UNCHANGED <<db, nextId, result, disk, cache, hist>>

\* a failed result with its "code"
Failed(p, code) == [Returned(p, FALSE) EXCEPT !.code = code]

\* serde_json::from_str and from_value of file_data: Some(envelope) of a
\* CryptoEnvelope, None of any other text
ParseEnvelope(upload) == IF upload.kind = "envelope" THEN <<upload>> ELSE <<>>

\* db_import_apply with a password of pws, an action of actions and a file of
\* files as its file_data: the checks up to validate_db_basic, and then the
\* first step of the action: "append" loads, "replace" saves, "view" stores the
\* source
db_import_apply(t, pws, actions, files) ==
    /\ At(t, "done")
    /\ nextId + 2 <= MaxIds
    /\ \E pw \in pws, a \in actions, upload \in files :
          LET action == Lower(clamp_string(a, TRUE))
              password == clamp_string(pw, FALSE)
              p == [IdleProc EXCEPT !.op = "import", !.pw = password, !.action = action,
                                    !.upload = upload, !.before = Before]
              verified  == verify_auth_password(disk.auth, password)
              encrypted == ParseEnvelope(upload)
              decrypted == IF encrypted = <<>> THEN <<>>
                           ELSE decrypt_envelope(encrypted[1], password)
              imported  == IF decrypted = <<>> THEN <<>> ELSE Parse(decrypted[1])
              Checked(migrated) ==
                  IF validate_db_basic(migrated) # <<>>
                  THEN Failed(p, validate_db_basic(migrated)[1].code)
                  ELSE LET q == [p EXCEPT !.migrated = migrated, !.incoming = migrated.doc]
                       IN  IF action = "append" THEN [q EXCEPT !.pc = "load_cache"]
                           ELSE IF action = "replace"
                           THEN [q EXCEPT !.pc = "save_crypto", !.raw = migrated,
                                          !.value = migrated]
                           ELSE [q EXCEPT !.pc = "import_meta"]
          IN  Step(t, IF action \notin {"append", "view", "replace"} THEN Failed(p, "broken")
                      ELSE IF verified.err THEN Returned(p, FALSE)
                      ELSE IF ~verified.ok THEN Failed(p, "password")
                      ELSE IF imported = <<>> THEN Failed(p, "broken")
                      ELSE Checked(ensure_db_shape_value(imported[1])))
    /\ UNCHANGED <<db, nextId, result, disk, cache, hist>>

\* load_meta_value: the databases of meta.json, none when it is missing or
\* unparsable
load_meta_value(meta) == IF meta.kind = "json" THEN meta.databases ELSE <<>>

\* store_imported_database up to its id: load_meta_value and new_id
ImportMeta(t) ==
    /\ At(t, "import_meta")
    /\ nextId < MaxIds
    /\ nextId' = nextId + 1
    /\ Step(t, [proc[t] EXCEPT !.pc = "import_source", !.meta = load_meta_value(disk.meta),
                               !.source = NewId(nextId)])
    /\ UNCHANGED <<db, result, disk, cache, hist>>

\* encrypt_text: the envelope under the salt just drawn
encrypt_text(text, password, salt) ==
    encrypt_text_with_key(text, salt, derive_key(password, salt))

\* the source files as they were: nothing is written
SourcesKept(sources, name, file) == sources

\* the source files with the one of this name written anew
WithSource(sources, name, file) ==
    {x \in sources : x.name # name} \cup {[name |-> name, file |-> file]}

\* write_db_file_by_name: the imported document under a salt of its own
ImportSource(t, faults) ==
    /\ At(t, "import_source")
    /\ hist.salts < MaxSalts
    /\ hist' = [hist EXCEPT !.salts = @ + 1]
    /\ \E outcome \in {"ok"} \cup faults :
          LET p == proc[t]
              normalized == ensure_db_shape_value(p.migrated)
              content == encrypt_text(Serialize(normalized), p.pw, hist.salts + 1)
          IN  IF outcome = "ok"
              THEN /\ disk' = [disk EXCEPT !.sources = WithSource(@, p.source, content)]
                   /\ Step(t, [p EXCEPT !.pc = "import_write_meta"])
              ELSE IF outcome = "open"
              THEN /\ disk' = disk
                   /\ Step(t, Returned(p, FALSE))
              ELSE /\ disk' = [disk EXCEPT !.sources = WithSource(@, p.source, GarbageFile)]
                   /\ Step(t, Returned(p, FALSE))
    /\ UNCHANGED <<db, nextId, result, cache>>

\* write_meta_value with the new entry pushed, and Ok(entry)
ImportWriteMeta(t, faults) ==
    /\ At(t, "import_write_meta")
    /\ \E outcome \in {"ok"} \cup faults :
          LET p == proc[t]
          IN  IF outcome = "ok"
              THEN /\ disk' = [disk EXCEPT !.meta = [kind |-> "json",
                                                    databases |-> Append(p.meta, p.source)]]
                   /\ Step(t, Returned(p, TRUE))
              ELSE IF outcome = "open"
              THEN /\ disk' = disk
                   /\ Step(t, Returned(p, FALSE))
              ELSE /\ disk' = [disk EXCEPT !.meta = [kind |-> "garbage", databases |-> <<>>]]
                   /\ Step(t, Returned(p, FALSE))
    /\ UNCHANGED <<db, nextId, result, cache, hist>>

\* the process ends and starts again: db_cache() is empty
Restart ==
    /\ \A t \in Threads : At(t, "done")
    /\ cache # EmptyCache
    /\ cache' = EmptyCache
    /\ proc' = [t \in Threads |-> IdleProc]
    /\ UNCHANGED <<db, nextId, result, disk, hist>>

\* what the data file may hold when something else than save_db_value has
\* written it: nothing, bytes that are not text, text that is no envelope, and
\* the envelope there was with its salt, its sealed bytes or its plaintext
\* replaced
ForeignFiles(f) ==
    {NoFile, Unreadable, GarbageFile}
    \cup (IF f.kind # "envelope" THEN {}
          ELSE {[f EXCEPT !.salt = BadSalt], [f EXCEPT !.salt = EmptySalt],
                [f EXCEPT !.intact = FALSE], [f EXCEPT !.text = GarbageText],
                [f EXCEPT !.text = EmptyText]})

\* between commands the data file is replaced
Tamper ==
    /\ \A t \in Threads : At(t, "done")
    /\ \E f \in ForeignFiles(disk.data) \ {disk.data} :
          disk' = [disk EXCEPT !.data = f]
    /\ hist' = [hist EXCEPT !.clean = FALSE, !.writer = 0]
    /\ UNCHANGED <<db, nextId, result, cache, proc>>

\* ---------------------------------------------------- the store: inputs
Passwords == {"p", "q"}

\* values handed to save_db_value: one that is no object, an older document
\* with nothing but a version and todos, and a document of the present version
\* without "cards" and "redo"
SaveValues ==
    {[object |-> FALSE, has |-> {}, version |-> 0, doc |-> default_db_value],
     [object |-> TRUE, has |-> {"version", "todos"}, version |-> 2,
      doc |-> [default_db_value EXCEPT !.todos = <<[id |-> -1, text |-> "t1"]>>]],
     [object |-> TRUE, has |-> ShapeKeys \ {"cards", "redo"}, version |-> DB_VERSION,
      doc |-> [default_db_value EXCEPT
                 !.columns = <<[id |-> -1, name |-> "Intake", order |-> 1]>>]]}

TodoLists ==
    {<<[id |-> -1, text |-> "t1"]>>,
     <<[id |-> -1, text |-> "t1"], [id |-> -2, text |-> "t2"]>>}

\* the todos thread t sets: its own number of them
TodosOf(t) == {SubSeq(<<[id |-> -1, text |-> "t1"], [id |-> -2, text |-> "t2"]>>, 1, t)}

ImportDocs == {[default_db_value EXCEPT !.todos = <<[id |-> -1, text |-> "t1"]>>]}

\* the salt of an export another installation made
ImportSalt == 200

\* the file an export of a value under a password gives
ImportFile(value, password) == encrypt_text(Serialize(value), password, ImportSalt)

ImportActions == {" Append", "view", "merge"}

Faults == {"open", "write"}

\* loads and saves under two passwords, restarts, and a data file replaced
\* from outside
NextStore ==
    \/ load_db_value(1, Passwords)
    \/ save_db_value(1, Passwords, SaveValues)
    \/ LoadCache(1)
    \/ LoadFile(1)
    \/ LoadKey(1)
    \/ LoadDefault(1)
    \/ LoadStoreValue(1)
    \/ LoadStoreCrypto(1)
    \/ SaveCrypto(1)
    \/ SaveResolve(1)
    \/ SaveOpen(1, {})
    \/ SaveWrite(1, {})
    \/ SaveStoreValue(1)
    \/ SaveStoreCrypto(1)
    \/ Restart
    \/ Tamper

SpecStore == Init /\ [][NextStore]_vars

\* commands of one thread on a filesystem whose writes may fail
NextFaulty ==
    \/ db_todos_set(1, {"p"}, TodoLists)
    \/ db_import_apply(1, {"p"}, ImportActions, {ImportFile(Shaped(d), "p") : d \in ImportDocs})
    \/ LoadCache(1)
    \/ LoadFile(1)
    \/ LoadKey(1)
    \/ LoadDefault(1)
    \/ LoadStoreValue(1)
    \/ LoadStoreCrypto(1)
    \/ SaveCrypto(1)
    \/ SaveResolve(1)
    \/ SaveOpen(1, Faults)
    \/ SaveWrite(1, Faults)
    \/ SaveStoreValue(1)
    \/ SaveStoreCrypto(1)
    \/ ImportMeta(1)
    \/ ImportSource(1, Faults)
    \/ ImportWriteMeta(1, Faults)
    \/ Restart

SpecFaulty == Init /\ [][NextFaulty]_vars

\* two threads that set the todos under one password
NextRace ==
    \/ \E t \in Threads :
          \/ db_todos_set(t, {"p"}, TodosOf(t))
          \/ LoadCache(t)
          \/ LoadFile(t)
          \/ LoadKey(t)
          \/ LoadDefault(t)
          \/ LoadStoreValue(t)
          \/ LoadStoreCrypto(t)
          \/ SaveCrypto(t)
          \/ SaveResolve(t)
          \/ SaveOpen(t, {})
          \/ SaveWrite(t, {})
          \/ SaveStoreValue(t)
          \/ SaveStoreCrypto(t)
    \/ Restart

SpecRace == Init /\ [][NextRace]_vars

\* the commands on the board and the ledger
NextBoard ==
    \/ db_kanban_add_column
    \/ db_kanban_remove_column
    \/ db_kanban_add_card
    \/ db_kanban_update_card
    \/ db_kanban_process_candidate
    \/ db_kanban_remove_candidate
    \/ db_delete_rows(TableIds)
    \/ db_recycle_undo
    \/ db_recycle_redo

SpecBoard == Init /\ [][NextBoard]_vars

\* the commands that add, remove and bring back cards and candidate rows
NextRoster ==
    \/ db_kanban_add_card
    \/ db_pii_get
    \/ db_pii_save({NoUniformFields})
    \/ db_kanban_process_candidate
    \/ db_kanban_remove_candidate
    \/ db_delete_rows({"kanban_columns", "kanban_cards", "candidate_data"})
    \/ db_recycle_undo
    \/ db_recycle_redo
    \/ ImportAppend(RosterDocs)

SpecRoster == Init /\ [][NextRoster]_vars

\* the commands that add, deduct, remove and bring back stock
NextStock ==
    \/ db_uniforms_add_item
    \/ db_kanban_process_candidate
    \/ db_delete_rows({"uniform_inventory"})
    \/ db_recycle_undo
    \/ db_recycle_redo
    \/ ImportAppend(StockDocs)

SpecStock == Init /\ [][NextStock]_vars

\* the parts documents to merge are made of
MergeColumn == [id |-> -1, name |-> "Intake", order |-> 1]

MergeCard == [uuid |-> -1, column_id |-> -1, order |-> 1, name |-> "n1", branch |-> "B1"]

MergeRow == [default_candidate_row EXCEPT !.uuid = -1, !.name = "n1"]

MergeTodo == [id |-> -1, text |-> "t1"]

\* duplicate-free documents: any of a column, a card in it with or without its
\* candidate row, a row of its own, and a todo
MergeTargets ==
    {[default_db_value EXCEPT !.columns = cols, !.cards = cards, !.candidates = rows,
                              !.todos = todos] :
        cols \in {<<>>, <<MergeColumn>>}, cards \in {<<>>, <<MergeCard>>},
        rows \in {<<>>, <<MergeRow>>}, todos \in {<<>>, <<MergeTodo>>}}

\* documents that repeat ids internally, or leave them empty
RepeatingDocs ==
    {[default_db_value EXCEPT !.columns = <<MergeColumn, MergeColumn>>],
     [default_db_value EXCEPT !.cards = <<MergeCard, MergeCard>>,
                              !.candidates = <<MergeRow, MergeRow>>],
     [default_db_value EXCEPT !.todos = <<MergeTodo, MergeTodo>>],
     [default_db_value EXCEPT !.candidates = <<[MergeRow EXCEPT !.uuid = EmptyId]>>,
                              !.todos = <<[MergeTodo EXCEPT !.id = EmptyId]>>]}

\* a week of the weekly tracker with the given days, all with one payload
MergeWeekOf(week_start, days, payload) ==
    [object |-> TRUE, week_start |-> week_start, week_end |-> week_start,
     hasEntries |-> TRUE, entries |-> [day \in days |-> payload]]

\* weekly maps: a week with one day, the same week with that day and another,
\* a week filed under another key than its week_start, a week whose "entries"
\* is not an object, a week that is not an object, and two weeks with one
\* week_start
WeeklyMaps ==
    {1 :> MergeWeekOf(1, {1}, "a"),
     1 :> MergeWeekOf(1, {1, 2}, "b"),
     2 :> MergeWeekOf(1, {2}, "c"),
     1 :> [MergeWeekOf(1, {}, "") EXCEPT !.hasEntries = FALSE],
     1 :> [MergeWeekOf(EmptyId, {}, "") EXCEPT !.object = FALSE, !.hasEntries = FALSE],
     (1 :> MergeWeekOf(EmptyId, {1}, "d")) @@ (2 :> MergeWeekOf(2, {1}, "c"))}

\* documents with weekly data, with and without a todo
WeeklyDocs ==
    {[default_db_value EXCEPT !.weekly = w, !.todos = todos] :
        w \in WeeklyMaps, todos \in {<<>>, <<MergeTodo>>}}

\* documents with one stock entry, of quantity 1 or 2^62
MergeStockDocs ==
    {[default_db_value EXCEPT
        !.uniforms = <<[id |-> -1, alteration |-> "alt1", type |-> "Shirt", size |-> "M",
                        waist |-> "", inseam |-> "", quantity |-> q, branch |-> "B1"]>>] :
        q \in {1, TwoTo62}}

\* the record of a merge: the target as it was and the incoming document
Merged(target, incoming) ==
    [cmd |-> "merge", ok |-> TRUE, arg |-> EmptyId, token |-> EmptyId,
     target |-> target, incoming |-> incoming]

InitMerge ==
    /\ db \in MergeTargets
    /\ nextId = 0
    /\ result = NoResult
    /\ disk = [data |-> NoFile, sources |-> {}, meta |-> NoMeta, auth |-> AuthRecordOf("p")]
    /\ cache = EmptyCache
    /\ proc = [t \in Threads |-> IdleProc]
    /\ hist = [salts |-> 0, saved |-> <<>>, clean |-> FALSE, writer |-> 0]

\* merge_databases(&mut db, &incoming) on the document in hand, the incoming one
\* an exact duplicate of it, another duplicate-free one, or a repeating one
Merge(docs) ==
    \E incoming \in {db} \cup docs :
        \E r \in {merge_databases(db, incoming, nextId)} :
          \E overflow_checks \in OverflowChecks(r.overflow) :
            IF r.overflow /\ overflow_checks
            THEN Refuse("merge", EmptyId, "attempt to add with overflow")
            ELSE Commit(r.db, r.nextId, Merged(db, incoming))

SpecMerge == InitMerge /\ [][Merge(MergeTargets \cup RepeatingDocs)]_vars

InitMergeData ==
    /\ db \in WeeklyDocs \cup MergeStockDocs
    /\ nextId = 0
    /\ result = NoResult
    /\ disk = [data |-> NoFile, sources |-> {}, meta |-> NoMeta, auth |-> AuthRecordOf("p")]
    /\ cache = EmptyCache
    /\ proc = [t \in Threads |-> IdleProc]
    /\ hist = [salts |-> 0, saved |-> <<>>, clean |-> FALSE, writer |-> 0]

SpecMergeData == InitMergeData /\ [][Merge(WeeklyDocs \cup MergeStockDocs)]_vars

\* C1: the token a successful undo returns names an entry of recycle.redo, and
\* the token a successful redo returns names an entry of recycle.items
C1_ReturnedTokenIsStored ==
    /\ (result.cmd = "undo" /\ result.ok) => result.token \in Ids(db.redo)
    /\ (result.cmd = "redo" /\ result.ok) => result.token \in Ids(db.items)

\* C2: after a successful undo or redo of a token, no entry of recycle.items or
\* recycle.redo has that token as its id
C2_TokenSpent ==
    (result.cmd \in {"undo", "redo"} /\ result.ok)
        => result.arg \notin (Ids(db.items) \cup Ids(db.redo))

\* C3: every card's column_id is the id of a column of the document
C3_CardsReferToColumns ==
    \A i \in 1..Len(db.cards) : db.cards[i].column_id \in Ids(db.columns)

\* the keys of a list, in its order
UuidsOf(list) == [i \in 1..Len(list) |-> list[i].uuid]

IdsOf(list) == [i \in 1..Len(list) |-> list[i].id]

\* no key is there twice
Distinct(keys) == \A i, j \in 1..Len(keys) : keys[i] = keys[j] => i = j

\* C4: no two cards share a uuid and no two candidate rows share a candidate
\* UUID
C4_UniqueCandidates ==
    /\ Distinct(UuidsOf(db.cards))
    /\ Distinct(UuidsOf(db.candidates))

\* an undo has just brought back a deleted card that an import had brought back
\* before it: the card is there once, ahead of a card added later
C4_RestoreMetExisting ==
    /\ result.cmd = "undo" /\ result.ok
    /\ Len(db.cards) = 2 /\ db.cards[1].uuid = -1 /\ db.cards[2].uuid > 0
    /\ Len(db.redo) = 1 /\ db.redo[1].type = "kanban_cards"
    /\ Len(db.redo[1].cards) = 1 /\ db.redo[1].cards[1].uuid = -1
    /\ Len(db.redo[1].candidates) = 1 /\ db.redo[1].candidates[1].uuid = -1

\* C6: a command that has returned a failed result or an error has left the data
\* file and the source files as they were when it began
C6_AllOrNothing ==
    \A t \in Threads :
        (At(t, "done") /\ proc[t].op # "none" /\ ~proc[t].ok)
            => /\ disk.data = proc[t].before.data
               /\ disk.sources = proc[t].before.sources

\* C7: once save_db_value(P, D) has succeeded and the file is as it left it,
\* load_db_value(P) returns normalize(D), from the cache or from the file
C7_LoadReturnsSaved ==
    \A t \in Threads :
        (/\ At(t, "done") /\ proc[t].op = "load"
         /\ hist.saved # <<>> /\ hist.clean
         /\ hist.saved[1].pw = proc[t].pw)
            => /\ proc[t].ok
               /\ proc[t].value = hist.saved[1].value

\* after a restart a load has read back from the file a saved value that
\* ensure_db_shape_value had to fill in
C7_ReadBackAfterRestart ==
    \E t \in Threads :
        /\ At(t, "done") /\ proc[t].op = "load" /\ proc[t].ok /\ proc[t].fromFile
        /\ hist.saved # <<>> /\ hist.clean /\ hist.saved[1].pw = proc[t].pw
        /\ proc[t].value # DefaultValue
        /\ proc[t].value.version # DB_VERSION

\* C8: load_db_value never reports a failure, whatever the data file holds
C8_LoadNeverFails ==
    \A t \in Threads : (At(t, "done") /\ proc[t].op = "load") => proc[t].ok

\* C9: once two commands that loaded the same document have both finished, the
\* data file holds exactly the document of the save that returned last
C9_LastSaveWins ==
    (/\ \A t \in Threads : At(t, "done") /\ proc[t].op = "todos_set" /\ proc[t].ok
     /\ proc[1].loaded = proc[2].loaded
     /\ hist.saved # <<>>)
        => /\ disk.data.kind = "envelope"
           /\ disk.data.text = Serialize(hist.saved[1].value)

\* C10: after a merge into a duplicate-free document no two columns share an
\* id, no two cards a uuid, no two candidate rows a candidate UUID and no two
\* todos an id
C10_MergeKeepsIdsApart ==
    /\ Distinct(IdsOf(db.columns))
    /\ Distinct(UuidsOf(db.cards))
    /\ Distinct(UuidsOf(db.candidates))
    /\ Distinct(IdsOf(db.todos))

\* a document merged with an exact duplicate of itself: everything is there
\* twice, the second time under an id made for it
C10_MergedWithDuplicate ==
    /\ Len(db.columns) = 2 /\ db.columns[1].id = -1 /\ db.columns[2].id > 0
    /\ Len(db.cards) = 2 /\ db.cards[1].uuid = -1 /\ db.cards[2].uuid > 0
    /\ Len(db.candidates) = 2 /\ db.candidates[1].uuid = -1
    /\ db.candidates[2].uuid = db.cards[2].uuid
    /\ Len(db.todos) = 2 /\ db.todos[1].id = -1 /\ db.todos[2].id > 0

\* C5: every stock entry holds a quantity above zero
C5_StockPositive ==
    \A i \in 1..Len(db.uniforms) : db.uniforms[i].quantity > 0

\* ------------------------------------------------ the envelope alone
\* texts to seal: the empty string, text that is no JSON, and documents
CryptoTexts == {EmptyText, GarbageText} \cup {Serialize(v) : v \in SaveValues}

\* an envelope as it was sealed, with a salt that does not decode, with a salt
\* of no bytes, and with an iv, tag or data that does not decode or has
\* another size
Corrupted(envelope) ==
    {envelope, [envelope EXCEPT !.salt = BadSalt], [envelope EXCEPT !.salt = EmptySalt],
     [envelope EXCEPT !.intact = FALSE]}

\* the record of a decryption: the text and password sealed, the envelope as it
\* was sealed and as it is opened, the password it is opened with, the outcome
Opened(text, password, sealed, envelope, with, opened) ==
    [cmd |-> "open", ok |-> TRUE, arg |-> EmptyId, token |-> EmptyId,
     text |-> text, password |-> password, sealed |-> sealed, envelope |-> envelope,
     with |-> with, opened |-> opened]

\* decrypt_envelope(&envelope, with) on what encrypt_text(text, password) gave,
\* or on a corrupted copy of it
SealAndOpen ==
    \E text \in CryptoTexts, password \in Passwords, with \in Passwords,
       salt \in 1..MaxSalts :
        \E envelope \in Corrupted(encrypt_text(text, password, salt)) :
            /\ result' = Opened(text, password, encrypt_text(text, password, salt),
                                envelope, with, decrypt_envelope(envelope, with))
            /\ UNCHANGED <<db, nextId>>
            /\ UNCHANGED storeVars

SpecCrypto == Init /\ [][SealAndOpen]_vars

\* ------------------------------------------------- the deduction alone
MaxStockRows == 2      \* stock entries in a stock state

\* a stock entry of shirts of size M at branch B1
ShirtStock(id, alteration, quantity) ==
    [id |-> id, alteration |-> alteration, type |-> "Shirt", size |-> "M",
     waist |-> "", inseam |-> "", quantity |-> quantity, branch |-> "B1"]

\* stock states: up to MaxStockRows entries for two alterations.  A quantity of
\* 0 is what the wrapped sum of upsert_uniform_stock leaves, and a key is there
\* twice once the deletion of a row is undone after its key was added again.
DeductStocks ==
    {[default_db_value EXCEPT !.uniforms = [i \in DOMAIN rows |-> [rows[i] EXCEPT !.id = -i]]] :
        rows \in UNION {[1..n -> {ShirtStock(0, a, q) : a \in {"alt1", "alt2"},
                                                       q \in 0..MaxQty}] :
                           n \in 0..MaxStockRows}}

\* the alteration lists of a request: none, one, two in either order, one
\* twice, one with a blank entry, one in capitals
TargetLists ==
    {<<>>, <<"alt1">>, <<"alt1", "alt2">>, <<"alt2", "alt1">>, <<"alt1", "alt1">>,
     <<"alt1", " ">>, <<"ALT1", "alt2">>}

\* the record of a deduction: the stock as it was, the request and the
\* adjustments returned
Deducted(d, quantity, alterations, adjustments) ==
    [cmd |-> "deduct", ok |-> TRUE, arg |-> EmptyId, token |-> EmptyId,
     target |-> d, quantity |-> quantity, alterations |-> alterations,
     adjustments |-> adjustments]

InitDeduct ==
    /\ db \in DeductStocks
    /\ nextId = 0
    /\ result = NoResult
    /\ disk = [data |-> NoFile, sources |-> {}, meta |-> NoMeta, auth |-> AuthRecordOf("p")]
    /\ cache = EmptyCache
    /\ proc = [t \in Threads |-> IdleProc]
    /\ hist = [salts |-> 0, saved |-> <<>>, clean |-> FALSE, writer |-> 0]

\* deduct_uniforms_across_alterations(&mut db, "Shirt", "M", quantity, "B1", alterations)
Deduct ==
    \E quantity \in 0..5, alterations \in TargetLists :
        \E r \in {deduct_uniforms_across_alterations(db, "Shirt", "M", quantity, "B1",
                                                     alterations)} :
            /\ db' = r.db
            /\ result' = Deducted(db, quantity, alterations, r.adjustments)
            /\ UNCHANGED nextId
            /\ UNCHANGED storeVars

SpecDeduct == InitDeduct /\ [][Deduct]_vars

\* ---- the while loop of deduct_uniforms_across_alterations, step by step
\* a miss that leaves the counter at 0
MissForgotten(misses) == 0

\* misses += 1
AfterMiss(misses) == misses + 1

\* the loop is entered: several targets and a quantity of 1..4
RotationStart ==
    /\ At(1, "done")
    /\ \E quantity \in 0..5, alterations \in TargetLists :
          /\ IssuedQuantityOfInt(quantity) > 0
          /\ Len(ClampNonEmpty(alterations)) > 1
          /\ Step(1, [pc |-> "rotate", target |-> db, quantity |-> quantity,
                      alterations |-> alterations,
                      targets |-> ClampNonEmpty(alterations),
                      remaining |-> IssuedQuantityOfInt(quantity),
                      misses |-> 0, idx |-> 0, adjustments |-> <<>>])
    /\ UNCHANGED <<db, nextId, result, disk, cache, hist>>

\* one pass through the body of while remaining > 0 && misses < targets.len()
RotationStep ==
    /\ At(1, "rotate")
    /\ proc[1].remaining > 0 /\ proc[1].misses < Len(proc[1].targets)
    /\ \E p \in {DeductPayload("Shirt", "M", "B1",
                      proc[1].targets[(proc[1].idx % Len(proc[1].targets)) + 1], 1)} :
        \E r \in {decrement_uniform_stock(db, p)} :
          /\ db' = r.db
          /\ Step(1, IF r.deducted > 0
                     THEN [proc[1] EXCEPT
                             !.remaining = @ - r.deducted, !.misses = 0, !.idx = @ + 1,
                             !.adjustments = append_uniform_adjustment(@, p, r.deducted)]
                     ELSE [proc[1] EXCEPT !.misses = AfterMiss(@), !.idx = @ + 1])
    /\ UNCHANGED <<nextId, result, disk, cache, hist>>

\* the loop condition fails: the adjustments are returned
RotationExit ==
    /\ At(1, "rotate")
    /\ ~(proc[1].remaining > 0 /\ proc[1].misses < Len(proc[1].targets))
    /\ result' = Deducted(proc[1].target, proc[1].quantity, proc[1].alterations,
                          proc[1].adjustments)
    /\ Step(1, IdleProc)
    /\ UNCHANGED <<db, nextId, disk, cache, hist>>

NextRotation == RotationStart \/ RotationStep \/ RotationExit

\* the thread that runs the loop is not stopped in the middle of it
SpecRotation ==
    InitDeduct /\ [][NextRotation]_vars /\ WF_vars(RotationStep) /\ WF_vars(RotationExit)

RECURSIVE SumQuantity(_)
\* the sum of the quantities of a list of stock entries or adjustments
SumQuantity(list) ==
    IF list = <<>> THEN 0 ELSE Head(list).quantity + SumQuantity(Tail(list))

\* C13: a deduction takes in total at most the requested quantity, and nothing
\* when the request is outside 1..4; the quantities of the adjustments returned
\* add up to what left the stock; no stock entry ends below 0
C13_DeductionBounds ==
    result.cmd = "deduct" =>
        LET removed == SumQuantity(result.target.uniforms) - SumQuantity(db.uniforms)
        IN  /\ removed >= 0
            /\ removed <= result.quantity
            /\ result.quantity \notin 1..4 => removed = 0
            /\ SumQuantity(result.adjustments) = removed
            /\ \A i \in 1..Len(db.uniforms) : db.uniforms[i].quantity >= 0

\* a deduction that took less than was asked for, from stock that ran out
C13_PartlyDeducted ==
    /\ result.cmd = "deduct"
    /\ result.quantity \in 1..4
    /\ SumQuantity(result.adjustments) > 0
    /\ SumQuantity(result.adjustments) < result.quantity

\* ------------------------------------------------ the shape of a document
\* a document with something in every collection
FullDoc ==
    [default_db_value EXCEPT
       !.columns = <<MergeColumn>>, !.cards = <<MergeCard>>, !.candidates = <<MergeRow>>,
       !.uniforms = <<ShirtStock(-1, "alt1", 1)>>,
       !.weekly = 1 :> MergeWeekOf(1, {1}, "a"),
       !.todos = <<MergeTodo>>,
       !.items = <<PushEntry([Payload("kanban_cards") EXCEPT !.cards = <<MergeCard>>], -2)>>,
       !.redo = <<PushEntry([Payload("kanban_cards") EXCEPT !.candidates = <<MergeRow>>], -3)>>]

\* the keys of ShapeKeys an object can hold with the right type: "columns",
\* "cards" and "candidates" only inside a "kanban" that is an object, "items"
\* and "redo" only inside a "recycle" that is one
ShapeHas ==
    {has \in SUBSET ShapeKeys :
        /\ has \cap {"columns", "cards", "candidates"} # {} => "kanban" \in has
        /\ has \cap {"items", "redo"} # {} => "recycle" \in has}

\* values handed to ensure_db_shape_value: values that are no objects, the
\* default document, and objects with something in every collection of which
\* any of the keys is missing or of another type; the version, where there is
\* one, is an older one
ShapeValues ==
    {[object |-> FALSE, has |-> {}, version |-> 0, doc |-> d] :
        d \in {default_db_value, FullDoc}}
    \cup {DefaultValue}
    \cup {[object |-> TRUE, has |-> has, version |-> IF "version" \in has THEN 2 ELSE 0,
           doc |-> FullDoc] : has \in ShapeHas}

\* the record of a normalization: the value, what ensure_db_shape_value makes
\* of it, and what it makes of that
Normalized(value, once, twice) ==
    [cmd |-> "shape", ok |-> TRUE, arg |-> EmptyId, token |-> EmptyId,
     value |-> value, once |-> once, twice |-> twice]

\* ensure_db_shape_value(value), and ensure_db_shape_value of its result
Normalize ==
    \E value \in ShapeValues :
        \E once \in {ensure_db_shape_value(value)} :
            /\ result' = Normalized(value, once, ensure_db_shape_value(once))
            /\ UNCHANGED <<db, nextId>>
            /\ UNCHANGED storeVars

SpecShape == Init /\ [][Normalize]_vars

\* ---------------------------------------------------------- the import
\* a version no release has had yet, and 2^63, which is a u64 but no i64
NewerVersion == DB_VERSION + 1

HugeVersion == 2 * TwoTo62

\* the values export files hold: a todo; a column with a card and its candidate
\* row; an older document without most keys; a value that is no object;
\* documents of a newer version; and documents with an empty column id, card
\* uuid, card column_id or candidate UUID
ImportValues ==
    {Shaped([default_db_value EXCEPT !.todos = <<MergeTodo>>]),
     Shaped([default_db_value EXCEPT !.columns = <<MergeColumn>>, !.cards = <<MergeCard>>,
                                     !.candidates = <<MergeRow>>]),
     [object |-> TRUE, has |-> {"version", "todos"}, version |-> 2,
      doc |-> [default_db_value EXCEPT !.todos = <<MergeTodo>>]],
     [object |-> FALSE, has |-> {}, version |-> 0, doc |-> default_db_value],
     [Shaped(default_db_value) EXCEPT !.version = NewerVersion],
     [Shaped([default_db_value EXCEPT !.todos = <<MergeTodo>>]) EXCEPT !.version = HugeVersion],
     Shaped([default_db_value EXCEPT !.columns = <<[MergeColumn EXCEPT !.id = EmptyId]>>]),
     Shaped([default_db_value EXCEPT !.columns = <<MergeColumn>>,
                                     !.cards = <<[MergeCard EXCEPT !.uuid = EmptyId]>>]),
     Shaped([default_db_value EXCEPT !.columns = <<MergeColumn>>,
                                     !.cards = <<[MergeCard EXCEPT !.column_id = EmptyId]>>]),
     Shaped([default_db_value EXCEPT !.candidates = <<[MergeRow EXCEPT !.uuid = EmptyId]>>])}

\* file_data: text that is no envelope; the exports of ImportValues under the
\* password of this installation; one under another password; and exports
\* with a salt, iv, tag or data that does not decode, with a plaintext that is
\* no JSON, and with none
ImportFiles ==
    {GarbageFile}
    \cup {ImportFile(v, "p") : v \in ImportValues}
    \cup {ImportFile(Shaped([default_db_value EXCEPT !.todos = <<MergeTodo>>]), "q"),
          [ImportFile(DefaultValue, "p") EXCEPT !.salt = BadSalt],
          [ImportFile(DefaultValue, "p") EXCEPT !.intact = FALSE],
          [ImportFile(DefaultValue, "p") EXCEPT !.text = GarbageText],
          [ImportFile(DefaultValue, "p") EXCEPT !.text = EmptyText]}

\* an export that passes every check
GoodFile == ImportFile(Shaped([default_db_value EXCEPT !.todos = <<MergeTodo>>]), "p")

\* what auth.json may hold: the record of password "p", nothing, text that is
\* no record, a record with an empty salt and one with a salt that does not
\* decode
AuthFiles ==
    {AuthRecordOf("p"), NoAuth, [NoAuth EXCEPT !.kind = "garbage"],
     [AuthRecordOf("p") EXCEPT !.salt = EmptySalt],
     [AuthRecordOf("p") EXCEPT !.salt = BadSalt]}

InitImport ==
    /\ db = default_db_value
    /\ nextId = 0
    /\ result = NoResult
    /\ disk \in {[data |-> NoFile, sources |-> {}, meta |-> NoMeta, auth |-> auth] :
                   auth \in AuthFiles}
    /\ cache = EmptyCache
    /\ proc = [t \in Threads |-> IdleProc]
    /\ hist = [salts |-> 0, saved |-> <<>>, clean |-> FALSE, writer |-> 0]

\* the steps of load_db_value in thread 1
LoadSteps ==
    \/ LoadCache(1)
    \/ LoadFile(1)
    \/ LoadKey(1)
    \/ LoadDefault(1)
    \/ LoadStoreValue(1)
    \/ LoadStoreCrypto(1)

\* the steps of save_db_value and of store_imported_database in thread 1, on a
\* filesystem without faults
WriteSteps ==
    \/ SaveCrypto(1)
    \/ SaveResolve(1)
    \/ SaveOpen(1, {})
    \/ SaveWrite(1, {})
    \/ SaveStoreValue(1)
    \/ SaveStoreCrypto(1)
    \/ ImportMeta(1)
    \/ ImportSource(1, {})
    \/ ImportWriteMeta(1, {})

\* the steps of a command of thread 1
Steps ==
    \/ LoadSteps
    \/ WriteSteps

\* exports that pass every check: a todo, a column with a card and its row, and
\* an older document that ensure_db_shape_value has to fill in
GoodFiles ==
    {GoodFile,
     ImportFile(Shaped([default_db_value EXCEPT !.columns = <<MergeColumn>>,
                                                !.cards = <<MergeCard>>,
                                                !.candidates = <<MergeRow>>]), "p"),
     ImportFile([object |-> TRUE, has |-> {"version", "todos"}, version |-> 2,
                 doc |-> [default_db_value EXCEPT !.todos = <<MergeTodo>>]], "p")}

\* imports of good files by one thread, and restarts
NextImport ==
    \/ db_import_apply(1, {"p"}, {"append", "view", "replace"}, GoodFiles)
    \/ Steps
    \/ Restart

SpecImport == Init /\ [][NextImport]_vars

\* imports by one thread: any file with the password of this installation, a
\* good file with another password or none, and actions that are not one of
\* the three
NextRejected ==
    \/ db_import_apply(1, {"p"}, {"view", "replace"}, ImportFiles)
    \/ db_import_apply(1, {"q", ""}, {"view", "merge"}, {GoodFile})
    \/ db_import_apply(1, {"p"}, {"merge", ""}, {GoodFile, GarbageFile})
    \/ WriteSteps

SpecRejected == InitImport /\ [][NextRejected]_vars

\* ---------------------------------------------------------- the weekly tracker
\* the weeks and the entries db_weekly_set is called with: no day, a day, the
\* same day with another payload, and two days
WeekStarts == {1}

WeekEntries == {EmptyMap, 1 :> "a", 1 :> "b", (1 :> "a") @@ (2 :> "a")}

\* db_weekly_set: the week is inserted over the one there is
db_weekly_set ==
    \E week_start \in WeekStarts \cup {EmptyId}, entries \in WeekEntries :
        IF week_start = EmptyId THEN Refuse("weekly_set", EmptyId, "Missing week_start.")
        ELSE Commit([db EXCEPT
                       !.weekly = (week_start :> [object |-> TRUE, week_start |-> week_start,
                                                  week_end |-> week_start, hasEntries |-> TRUE,
                                                  entries |-> entries]) @@ @],
                    nextId, Response("weekly_set", TRUE, EmptyId, EmptyId, ""))

\* the commands that write, delete and bring back days of the weekly tracker
NextWeekly ==
    \/ db_weekly_set
    \/ db_delete_rows({"weekly_entries"})
    \/ db_recycle_undo
    \/ db_recycle_redo

SpecWeekly == Init /\ [][NextWeekly]_vars

\* the stock there is for a list of alteration targets
StockOver(uniforms, targets) ==
    SumQuantity(SelectSeq(uniforms,
        LAMBDA e : Lower(e.alteration) \in {Lower(targets[i]) : i \in 1..Len(targets)}))

\* C14: with several alteration targets the deduction takes
\* min(requested, stock over the targets) units; from alt1: 1 and alt2: 1 a
\* request of 3 across [alt1, alt2] takes one of each, in that order
C14_RotationTakesAll ==
    (/\ result.cmd = "deduct"
     /\ result.quantity \in 1..4
     /\ Len(ClampNonEmpty(result.alterations)) > 1)
        => /\ SumQuantity(result.adjustments)
                = Min2(result.quantity,
                       StockOver(result.target.uniforms, ClampNonEmpty(result.alterations)))
           /\ (/\ result.target.uniforms = <<ShirtStock(-1, "alt1", 1), ShirtStock(-2, "alt2", 1)>>
               /\ result.alterations = <<"alt1", "alt2">>
               /\ result.quantity = 3)
                  => /\ Len(result.adjustments) = 2
                     /\ result.adjustments[1].alteration = "alt1"
                     /\ result.adjustments[1].quantity = 1
                     /\ result.adjustments[2].alteration = "alt2"
                     /\ result.adjustments[2].quantity = 1

\* C15: the round-robin loop ends, whatever the stock, the targets and the
\* quantity: every pass either lowers remaining or adds one to misses, and the
\* loop is left when misses has reached the number of targets
C15_RotationEnds ==
    /\ At(1, "rotate") ~> At(1, "done")
    /\ [][RotationStep =>
             \/ proc'[1].remaining < proc[1].remaining
             \/ proc'[1].misses = proc[1].misses + 1]_vars
    /\ [](At(1, "rotate") => proc[1].misses <= Len(proc[1].targets))

\* the loop at its end with every target out of stock and units still asked for
C15_EveryTargetMissed ==
    /\ At(1, "rotate")
    /\ proc[1].misses = Len(proc[1].targets)
    /\ proc[1].remaining > 0
    /\ proc[1].adjustments # <<>>

\* C16: decrypt_envelope(encrypt_text(text, password), password) is Some(text)
\* for every text, the empty string included
C16_RoundTrip ==
    (/\ result.cmd = "open"
     /\ result.with = result.password
     /\ result.envelope = result.sealed)
        => result.opened = <<result.text>>

\* C17: decrypt_envelope returns None for an envelope sealed with another
\* password, and the same None for an envelope with a field that does not
\* decode or has the wrong size
C17_WrongKeyGivesNone ==
    (/\ result.cmd = "open"
     /\ result.with # result.password \/ result.envelope # result.sealed)
        => result.opened = <<>>

\* an intact envelope with text in it, opened with another password
C17_OpenedWithWrongPassword ==
    /\ result.cmd = "open"
    /\ result.with # result.password
    /\ result.envelope = result.sealed
    /\ result.text.kind # "empty"
    /\ result.opened = <<>>

\* the day entries of a week: none when the week or its "entries" is no object
DayEntries(week) == IF week.object /\ week.hasEntries THEN week.entries ELSE EmptyMap

\* C11: after merge_databases every day entry the target had is still there,
\* unchanged, whatever the incoming document holds for that week and day, and
\* every other day entry of the result is an incoming week's entry for that day
C11_WeeklyKept ==
    result.cmd = "merge" =>
        /\ \A k \in DOMAIN result.target.weekly :
              \A day \in DOMAIN DayEntries(result.target.weekly[k]) :
                /\ k \in DOMAIN db.weekly
                /\ day \in DOMAIN DayEntries(db.weekly[k])
                /\ db.weekly[k].entries[day] = result.target.weekly[k].entries[day]
        /\ \A k \in DOMAIN db.weekly :
              \A day \in DOMAIN DayEntries(db.weekly[k]) :
                \/ /\ k \in DOMAIN result.target.weekly
                   /\ day \in DOMAIN DayEntries(result.target.weekly[k])
                \/ \E j \in DOMAIN result.incoming.weekly :
                      /\ result.incoming.weekly[j].week_start = k
                      /\ day \in DOMAIN DayEntries(result.incoming.weekly[j])
                      /\ db.weekly[k].entries[day] = result.incoming.weekly[j].entries[day]

\* a merge whose incoming document held another payload for a day of the target
C11_WeekMetIncoming ==
    /\ result.cmd = "merge"
    /\ \E k \in DOMAIN result.target.weekly, j \in DOMAIN result.incoming.weekly :
          /\ result.incoming.weekly[j].week_start = k
          /\ \E day \in DOMAIN DayEntries(result.target.weekly[k])
                      \cap DOMAIN DayEntries(result.incoming.weekly[j]) :
                result.incoming.weekly[j].entries[day] # result.target.weekly[k].entries[day]

\* whether list holds, in their order and with their field values, the
\* entities of kept
StartsWith(list, kept) == Len(list) >= Len(kept) /\ SubSeq(list, 1, Len(kept)) = kept

\* C12: after merge_databases every column, card, candidate row and todo of the
\* target is there with its id and its field values, and no stock entry of the
\* target has a lower quantity
C12_AppendOnly ==
    result.cmd = "merge" =>
        /\ StartsWith(db.columns, result.target.columns)
        /\ StartsWith(db.cards, result.target.cards)
        /\ StartsWith(db.candidates, result.target.candidates)
        /\ StartsWith(db.todos, result.target.todos)
        /\ \A i \in 1..Len(result.target.uniforms) :
              \E j \in 1..Len(db.uniforms) :
                /\ db.uniforms[j].id = result.target.uniforms[i].id
                /\ db.uniforms[j].quantity >= result.target.uniforms[i].quantity

\* the collections of a document, each with the keys that hold it
ShapePaths ==
    {<<"columns", {"kanban", "columns"}>>, <<"cards", {"kanban", "cards"}>>,
     <<"candidates", {"kanban", "candidates"}>>, <<"uniforms", {"uniforms"}>>,
     <<"weekly", {"weekly"}>>, <<"todos", {"todos"}>>,
     <<"items", {"recycle", "items"}>>, <<"redo", {"recycle", "redo"}>>}

\* C18: ensure_db_shape_value(ensure_db_shape_value(v)) is
\* ensure_db_shape_value(v) for every value v; of a value that is no object it
\* gives the default empty document; and every collection the value holds with
\* the right type is in the result as it was
C18_ShapeIdempotent ==
    result.cmd = "shape" =>
        /\ result.twice = result.once
        /\ result.once.object /\ result.once.has = ShapeKeys
        /\ ~result.value.object => result.once = Shaped(default_db_value)
        /\ result.value.object =>
              \A path \in ShapePaths :
                 path[2] \subseteq result.value.has
                    => result.once.doc[path[1]] = result.value.doc[path[1]]

\* an object without "kanban" and "redo" that holds todos and ledger items,
\* normalized
C18_PartlyShaped ==
    /\ result.cmd = "shape"
    /\ result.value.object
    /\ "kanban" \notin result.value.has
    /\ {"todos", "recycle", "items"} \subseteq result.value.has
    /\ "redo" \notin result.value.has
    /\ result.value.doc = FullDoc
    /\ result.once.doc.todos = FullDoc.todos
    /\ result.once.doc.cards = <<>>

\* the entities of a list with the uuid
Matching(list, uuid) == SelectSeq(list, LAMBDA e : e.uuid = uuid)

\* what an undo makes of a snapshot entity: the list holds it once, as the
\* snapshot has it, when the list had none of its uuid, and holds what it held
\* of that uuid when it had one
Reinstated(before, after, e) ==
    Matching(after, e.uuid)
        = IF e.uuid \in Uuids(before) THEN Matching(before, e.uuid) ELSE <<e>>

\* the entries of recycle.items and recycle.redo
LedgerOf(d) ==
    {d.items[i] : i \in 1..Len(d.items)} \cup {d.redo[i] : i \in 1..Len(d.redo)}

\* C19: db_delete_rows on kanban_cards and db_kanban_remove_candidate record
\* the cards and candidate rows they remove as they were; no command alters or
\* drops an entry of the ledger; and db_recycle_undo of such an entry puts
\* every card and row of it back with the field values recorded, once, unless
\* the document holds a record of that uuid, which it then leaves alone
C19_UndoReinstatesDeleted ==
    /\ [][((db_delete_rows({"kanban_cards"}) \/ db_kanban_remove_candidate)
             /\ Len(db'.items) = Len(db.items) + 1)
            => LET item == db'.items[Len(db'.items)]
               IN  /\ item.type = "kanban_cards"
                   /\ item.cards = SelectSeq(db.cards, LAMBDA c : c.uuid \notin Uuids(db'.cards))
                   /\ item.candidates
                        = SelectSeq(db.candidates, LAMBDA r : r.uuid \notin Uuids(db'.candidates))
                   /\ item.cards # <<>> \/ item.candidates # <<>>]_vars
    /\ [][LedgerOf(db) \subseteq LedgerOf(db')]_vars
    /\ [][(db_recycle_undo /\ result'.cmd = "undo" /\ result'.ok)
            => LET item == db.items[FirstIndex(db.items, ClampId(result'.arg))]
               IN  item.type = "kanban_cards"
                     => /\ \A i \in 1..Len(item.cards) :
                              Reinstated(db.cards, db'.cards, item.cards[i])
                        /\ \A i \in 1..Len(item.candidates) :
                              Reinstated(db.candidates, db'.candidates, item.candidates[i])]_vars

\* an undo has put back a card and its candidate row that were deleted
\* together: both are in the document as the ledger entry has them, and the row
\* was never processed
C19_CardAndRowBack ==
    /\ result.cmd = "undo" /\ result.ok
    /\ \E k \in 1..Len(db.redo) :
          /\ db.redo[k].id = ClampId(result.arg)
          /\ db.redo[k].type = "kanban_cards"
          /\ Len(db.redo[k].cards) = 1 /\ Len(db.redo[k].candidates) = 1
          /\ db.redo[k].candidates[1].uuid = db.redo[k].cards[1].uuid
          /\ db.redo[k].candidates[1].hours # "set"
          /\ Matching(db.cards, db.redo[k].cards[1].uuid) = db.redo[k].cards
          /\ Matching(db.candidates, db.redo[k].cards[1].uuid) = db.redo[k].candidates
          /\ db.cards[Len(db.cards)] = db.redo[k].cards[1]
          /\ db.candidates[Len(db.candidates)] = db.redo[k].candidates[1]

\* C20: a db_recycle_undo that follows a successful db_recycle_undo of the
\* same token answers ok: false with "Nothing to undo." and leaves the
\* document as it is; a db_recycle_redo that follows a successful
\* db_recycle_redo of the same token does so with "Nothing to redo."
C20_TokenIsSingleUse ==
    /\ [][(/\ result.cmd = "undo" /\ result.ok
           /\ db_recycle_undo
           /\ result'.cmd = "undo" /\ result'.arg = result.arg)
            => /\ ~result'.ok
               /\ result'.err = "Nothing to undo."
               /\ db' = db]_vars
    /\ [][(/\ result.cmd = "redo" /\ result.ok
           /\ db_recycle_redo
           /\ result'.cmd = "redo" /\ result'.arg = result.arg)
            => /\ ~result'.ok
               /\ result'.err = "Nothing to redo."
               /\ db' = db]_vars

\* an undo refused for a token that a successful undo has moved to
\* recycle.redo
C20_SecondUndoRefused ==
    /\ result.cmd = "undo" /\ ~result.ok
    /\ result.err = "Nothing to undo."
    /\ ClampId(result.arg) # EmptyId
    /\ ClampId(result.arg) \in Ids(db.redo)
    /\ ClampId(result.arg) \notin Ids(db.items)

\* C21: db_recycle_undo of any token of recycle.items succeeds, whichever
\* entry was recorded first, and it leaves the other entries of recycle.items
\* and every entry of recycle.redo where they were and as they were
C21_AnyPendingToken ==
    [][(/\ db_recycle_undo
        /\ result'.cmd = "undo"
        /\ ClampId(result'.arg) # EmptyId
        /\ ClampId(result'.arg) \in Ids(db.items))
         => /\ result'.ok
            /\ db'.items = RemoveAt(db.items, FirstIndex(db.items, ClampId(result'.arg)))
            /\ Len(db'.redo) = Len(db.redo) + 1
            /\ SubSeq(db'.redo, 1, Len(db.redo)) = db.redo]_vars

\* the older of two pending entries has been undone: the one recorded after it
\* is still in recycle.items
C21_OlderUndoneFirst ==
    /\ result.cmd = "undo" /\ result.ok
    /\ Len(db.items) = 1 /\ Len(db.redo) = 1
    /\ db.redo[1].id = ClampId(result.arg)
    /\ db.items[1].id > db.redo[1].id

\* the document db_import_apply has read from the upload of p and normalized
Imported(p) == ensure_db_shape_value(Parse(decrypt_envelope(p.upload, p.pw)[1])[1])

\* the document load_db_value gives for a data file on a filesystem without
\* faults: the normalized document of the envelope, or the default one
Live(file, password) ==
    IF file.kind = "envelope" /\ decrypt_envelope(file, password) # <<>>
                              /\ Parse(decrypt_envelope(file, password)[1]) # <<>>
    THEN ensure_db_shape_value(Parse(decrypt_envelope(file, password)[1])[1])
    ELSE DefaultValue

\* a successful db_import_apply of thread 1 with this action has returned
Applied(action) ==
    /\ proc[1].pc = "done" /\ proc[1].op = "import" /\ proc[1].ok
    /\ proc[1].action = action

\* a step of an import with action "view" writes neither the data file nor the
\* cached document
ViewLeavesLive ==
    (proc[1].op = "import" /\ proc[1].action = "view" /\ proc[1].pc # "done")
       => (disk'.data = disk.data /\ cache' = cache)

\* what a successful import has done: "view" has filed the imported document as
\* a new source, "replace" has made it the live one, in the data file and in the
\* cache, and "append" has made the live document the merge of the live and the
\* imported one
ImportOutcome ==
    /\ Applied("view") =>
          /\ disk.data = proc[1].before.data
          /\ proc[1].source \notin {s.name : s \in proc[1].before.sources}
          /\ \E s \in disk.sources :
                /\ s.name = proc[1].source
                /\ decrypt_envelope(s.file, proc[1].pw) = <<Serialize(Imported(proc[1]))>>
          /\ disk.meta = [kind |-> "json",
                          databases |-> Append(load_meta_value(proc[1].before.meta),
                                               proc[1].source)]
    /\ Applied("replace") =>
          /\ decrypt_envelope(disk.data, proc[1].pw) = <<Serialize(Imported(proc[1]))>>
          /\ load_cached_db_value(cache, proc[1].pw) = <<Imported(proc[1])>>
    /\ Applied("append") =>
          \E live \in {Live(proc[1].before.data, proc[1].pw)} :
             \E n \in 0..nextId :
                \E merged \in {[live EXCEPT !.doc = merge_databases(live.doc,
                                                       Imported(proc[1]).doc, n).db]} :
                   /\ decrypt_envelope(disk.data, proc[1].pw) = <<Serialize(merged)>>
                   /\ load_cached_db_value(cache, proc[1].pw) = <<merged>>

\* C22: an import with action "view" files the imported document as a new
\* source and leaves the data file and the cached live document as they were;
\* "replace" makes the normalized imported document the live one; "append"
\* makes the live document the merge of the live and the imported one
C22_ImportActions == [][ViewLeavesLive]_vars /\ []ImportOutcome

\* an import has appended to a live document that the data file held
C22_AppendedToLive ==
    /\ Applied("append")
    /\ proc[1].before.data.kind = "envelope"
    /\ Len(Live(proc[1].before.data, proc[1].pw).doc.todos) > 0
    /\ Len(Imported(proc[1]).doc.cards) > 0

\* what the spec lists as a ground to reject the import of p: an action that is
\* none of the three, a password that does not match the verification record,
\* a file that cannot be decrypted or parsed, and a normalized document of a
\* newer version or with an empty column id, card uuid, card column_id or
\* candidate UUID
MustReject(p) ==
    \/ p.action \notin {"append", "replace", "view"}
    \/ ~verify_auth_password(disk.auth, p.pw).err /\ ~verify_auth_password(disk.auth, p.pw).ok
    \/ p.upload.kind # "envelope"
    \/ decrypt_envelope(p.upload, p.pw) = <<>>
    \/ Parse(decrypt_envelope(p.upload, p.pw)[1]) = <<>>
    \/ \E v \in {Imported(p)} :
          \/ v.version > DB_VERSION
          \/ \E i \in 1..Len(v.doc.columns) : v.doc.columns[i].id = EmptyId
          \/ \E i \in 1..Len(v.doc.cards) :
                v.doc.cards[i].uuid = EmptyId \/ v.doc.cards[i].column_id = EmptyId
          \/ \E i \in 1..Len(v.doc.candidates) : v.doc.candidates[i].uuid = EmptyId

\* C23: an import that has one of the listed grounds for rejection is rejected
\* and writes nothing: the data file, the cached live document, the source
\* files and meta.json are as they were
C23_RejectedWritesNothing ==
    [][(proc'[1].op = "import" /\ MustReject(proc'[1]))
         => /\ proc'[1].pc = "done" /\ ~proc'[1].ok
            /\ disk' = disk /\ cache' = cache]_vars

\* the password of p does not match the verification record that auth.json
\* holds
AuthFails(p) ==
    ~verify_auth_password(disk.auth, p.pw).err /\ ~verify_auth_password(disk.auth, p.pw).ok

\* the verification record was read and the request of p has a structural
\* defect: an action that is none of the three, or, with the right password,
\* any other ground of MustReject
Structural(p) ==
    /\ ~verify_auth_password(disk.auth, p.pw).err
    /\ \/ p.action \notin {"append", "replace", "view"}
       \/ ~AuthFails(p) /\ MustReject(p)

\* C24: db_import_apply answers a password that does not match with an
\* ordinary failed result of code "password" and a structural or corruption
\* failure with one of code "broken"; neither is an error, and a result has one
\* code
C24_PasswordOrBroken ==
    [][(proc[1].pc = "done" /\ proc'[1].op = "import" /\ proc'[1] # proc[1])
         => LET p == proc'[1]
            IN  /\ (AuthFails(p) \/ Structural(p))
                      => p.pc = "done" /\ ~p.ok /\ p.code \in {"password", "broken"}
                /\ (AuthFails(p) /\ ~Structural(p)) => p.code = "password"
                /\ (Structural(p) /\ ~AuthFails(p)) => p.code = "broken"
                /\ p.code = "password" => AuthFails(p)
                /\ p.code = "broken" => Structural(p)]_vars

\* ---------------------------------------------------------- the cache slot
\* two threads that work with a password each
PasswordOf(t) == IF t = 1 THEN "p" ELSE "q"

\* the document thread t hands to save_db_value: its todos tell whose it is
DocumentOf(t) == Shaped([default_db_value EXCEPT !.todos = CHOOSE todos \in TodosOf(t) : TRUE])

\* loads and saves of two threads under two passwords, and restarts
NextSlot ==
    \/ \E t \in Threads :
          \/ load_db_value(t, {PasswordOf(t)})
          \/ save_db_value(t, {PasswordOf(t)}, {DocumentOf(t)})
          \/ LoadCache(t)
          \/ LoadFile(t)
          \/ LoadKey(t)
          \/ LoadDefault(t)
          \/ LoadStoreValue(t)
          \/ LoadStoreCrypto(t)
          \/ SaveCrypto(t)
          \/ SaveResolve(t)
          \/ SaveOpen(t, {})
          \/ SaveWrite(t, {})
          \/ SaveStoreValue(t)
          \/ SaveStoreCrypto(t)
    \/ Restart

SpecSlot == Init /\ [][NextSlot]_vars

\* what the slot holds belongs to the password of its tag: the key was derived
\* from that password and from the cached salt, and the document is one that a
\* call with that password has stored
SlotOfOnePassword ==
    /\ cache.key = <<>> => cache.value = <<>> /\ cache.db_salt = <<>> /\ cache.db_key = <<>>
    /\ cache.db_key # <<>> =>
          /\ cache.key = <<db_cache_key(cache.db_key[1].password)>>
          /\ cache.db_salt = <<cache.db_key[1].salt>>
    /\ \A t \in Threads :
          (cache.value # <<>> /\ cache.value[1] = DocumentOf(t))
             => cache.key = <<db_cache_key(PasswordOf(t))>>

\* what a call has received from the slot is its own: a key derived from its
\* password, and a document that is the default one or the one it saved
ReceivedOwn ==
    \A t \in Threads :
       /\ proc[t].pc \in {"load_store_value", "load_store_crypto", "save_open",
                          "save_write", "save_store_value", "save_store_crypto"}
             => proc[t].key = derive_key(proc[t].pw, proc[t].salt)
       /\ (proc[t].pc = "done" /\ proc[t].op = "load" /\ proc[t].ok)
             => proc[t].loaded \in {DefaultValue, DocumentOf(t)}

\* C25: the cache slot never holds a document of one password together with a
\* salt and key of another, and a call never receives a document or a key that
\* was cached under another password
C25_SlotOfOnePassword == SlotOfOnePassword /\ ReceivedOwn

\* the slot has passed from one password to the other while the first thread
\* was between its two stores, and that thread has stored its key since
C25_SlotTakenOver ==
    /\ proc[1].pc = "done" /\ proc[1].ok /\ proc[1].op = "save"
    /\ proc[2].pc = "save_store_crypto"
    /\ cache.key = <<db_cache_key("p")>>
    /\ cache.value = <<>>
    /\ cache.db_key = <<derive_key("p", proc[1].salt)>>

\* C26: load_db_value and save_db_value go on with the cached salt and key only
\* when the cached salt is the salt of the envelope in the data file; load
\* derives the key from the salt of the file otherwise, and save takes the salt
\* of the file or a fresh one
C26_ReusedOnSameSalt ==
    [][\A t \in Threads :
          /\ (proc[t].pc = "load_key" /\ proc'[t].pc = "load_store_value")
                => proc'[t].key = derive_key(proc[t].pw, proc[t].file.salt)
          /\ (proc[t].pc = "save_crypto" /\ proc'[t].pc = "save_open")
                => /\ disk.data.kind = "envelope"
                   /\ disk.data.salt = proc'[t].salt]_vars

\* the orders of the cards of a column
OrdersIn(cards, column_id) ==
    {cards[i].order : i \in {j \in 1..Len(cards) : cards[j].column_id = column_id}}

\* a step of db_kanban_add_column leaves the document as it was (the name was
\* empty) or appends one column of a new id and of the order that Order gives
AddsColumn(Order(_)) ==
    db_kanban_add_column
       => \/ db' = db
          \/ /\ Len(db'.columns) = Len(db.columns) + 1
             /\ SubSeq(db'.columns, 1, Len(db.columns)) = db.columns
             /\ db'.columns[Len(db'.columns)].order = Order(db.columns)
             /\ db'.columns[Len(db'.columns)].id \notin Ids(db.columns)
             /\ db'.cards = db.cards /\ db'.candidates = db.candidates

\* a step of db_kanban_add_card leaves the document as it was (it was refused)
\* or appends one card, of a column there is and of the order that Order gives
\* for the cards of that column, and one row of the card's uuid, the only one
AddsCard(Order(_)) ==
    db_kanban_add_card
       => \/ db' = db
          \/ /\ Len(db'.cards) = Len(db.cards) + 1
             /\ SubSeq(db'.cards, 1, Len(db.cards)) = db.cards
             /\ LET card == db'.cards[Len(db'.cards)]
                IN  /\ ValidColumn(db.columns, card.column_id)
                    /\ card.order = Order(OrdersIn(db.cards, card.column_id))
                    /\ card.uuid \notin Uuids(db.cards)
                    /\ Len(db'.candidates) = Len(db.candidates) + 1
                    /\ SubSeq(db'.candidates, 1, Len(db.candidates)) = db.candidates
                    /\ Cardinality({i \in 1..Len(db'.candidates) :
                                       db'.candidates[i].uuid = card.uuid}) = 1
             /\ db'.columns = db.columns

\* 1 + the largest of these orders, 1 when there is none
OneMore(orders) == IF orders = {} THEN 1 ELSE 1 + SetMax(orders)

\* 1 + the largest of these orders that is above 0, 1 when there is none
OneMoreAboveZero(orders) == 1 + SetMax({0} \cup orders)

\* the orders of these columns
ColumnOrders(columns) == {columns[i].order : i \in 1..Len(columns)}

OnlyAbsentAppended(old, new, Key(_)) ==
    /\ Len(new) >= Len(old)
    /\ SubSeq(new, 1, Len(old)) = old
    /\ \A j \in (Len(old) + 1)..Len(new) :
          \A i \in 1..Len(old) : Key(new[j]) # Key(old[i])

\* the entry of recycle.items that this step of db_recycle_undo has undone
Undone == db.items[FirstIndex(db.items, ClampId(result'.arg))]

\* the days that weeks hold are in these weeks too, with the payload they had
DaysKept(old, new) ==
    \A k \in DOMAIN old :
       \A day \in DOMAIN old[k].entries :
          /\ k \in DOMAIN new
          /\ day \in DOMAIN new[k].entries
          /\ new[k].entries[day] = old[k].entries[day]

\* C28: an undo of an entry of any type adds only the entities of the snapshot
\* whose key the document does not have: the columns, cards, candidate rows,
\* days of the weekly tracker and todos there are, and for an entry of uniform
\* rows the uniform rows, are left as they are, not overwritten and not
\* duplicated
C28_ExistingLeftAlone ==
    [][(db_recycle_undo /\ result'.cmd = "undo" /\ result'.ok)
         => /\ OnlyAbsentAppended(db.columns, db'.columns, LAMBDA c : c.id)
            /\ OnlyAbsentAppended(db.cards, db'.cards, LAMBDA c : c.uuid)
            /\ OnlyAbsentAppended(db.candidates, db'.candidates, LAMBDA c : c.uuid)
            /\ DaysKept(db.weekly, db'.weekly)
            /\ OnlyAbsentAppended(db.todos, db'.todos, LAMBDA c : c.id)
            /\ Undone.type = "uniform_rows"
                  => OnlyAbsentAppended(db.uniforms, db'.uniforms, LAMBDA c : c.id)]_vars

\* what db_recycle_redo makes of the document when it is called with the entry
\* that this step of db_recycle_undo has put last in recycle.redo
Redone ==
    reapply_recycle_item([db' EXCEPT !.redo = RemoveAt(@, Len(@))],
                         db'.redo[Len(db'.redo)], nextId')

\* C29: redo is the inverse of undo: the redo of the entry that an undo has
\* made succeeds and gives the columns, cards, candidate rows, weekly entries,
\* todos and stock that there were before the undo, for an entry of any type
C29_RedoInvertsUndo ==
    [][(db_recycle_undo /\ result'.cmd = "undo" /\ result'.ok)
         => /\ Redone.ok
            /\ Redone.db.columns = db.columns
            /\ Redone.db.cards = db.cards
            /\ Redone.db.candidates = db.candidates
            /\ Redone.db.weekly = db.weekly
            /\ Redone.db.todos = db.todos
            /\ Redone.db.uniforms = db.uniforms]_vars

\* ---------------------------------------------------------- issued uniforms
\* the parts of an alteration specification: the text between its commas
SplitCommas(text) ==
    CASE text = ""         -> <<>>
      [] text = "hem,cuff" -> <<"hem", "cuff">>
      [] OTHER             -> <<text>>

\* a stock entry of pants of size 32x34
PantsStock(id, alteration, quantity) ==
    [id |-> id, alteration |-> alteration, type |-> "Pants", size |-> "32x34",
     waist |-> "32", inseam |-> "34", quantity |-> quantity, branch |-> "B1"]

\* documents with one card whose candidate row asks for shirts of two
\* alterations and for pants of one or of two, and with stock of each
IssueDocs ==
    {[default_db_value EXCEPT
        !.cards = <<[uuid |-> -1, column_id |-> -1, order |-> 1, name |-> "n1",
                     branch |-> "B1"]>>,
        !.candidates = <<[default_candidate_row EXCEPT
                            !.uuid = -1, !.name = "n1",
                            !.uni = [NoUniformFields EXCEPT
                                       !.issued = "Yes", !.shirtSize = "M",
                                       !.shirtsGiven = "2",
                                       !.shirtType = <<"alt1", "alt2">>,
                                       !.waist = "32", !.inseam = "34",
                                       !.pantsGiven = given, !.pantsType = pants]]>>,
        !.uniforms = <<[id |-> -1, alteration |-> "alt1", type |-> "Shirt", size |-> "M",
                        waist |-> "", inseam |-> "", quantity |-> 1, branch |-> "B1"],
                       [id |-> -2, alteration |-> "alt2", type |-> "Shirt", size |-> "M",
                        waist |-> "", inseam |-> "", quantity |-> shirts, branch |-> "B1"],
                       PantsStock(-3, "hem", hem), PantsStock(-4, "cuff", cuff)>>] :
       given \in {"1", "2"}, pants \in {"hem", "hem,cuff"}, shirts \in 1..2, hem \in 1..2,
       cuff \in 1..2}

InitIssue ==
    /\ db \in IssueDocs
    /\ nextId = 0
    /\ result = NoResult
    /\ disk = [data |-> NoFile, sources |-> {}, meta |-> NoMeta, auth |-> AuthRecordOf("p")]
    /\ cache = EmptyCache
    /\ proc = [t \in Threads |-> IdleProc]
    /\ hist = [salts |-> 0, saved |-> <<>>, clean |-> FALSE, writer |-> 0]

\* a candidate is processed, and the entry is undone and redone
NextIssue ==
    \/ db_kanban_process_candidate
    \/ db_recycle_undo
    \/ db_recycle_redo

SpecIssue == InitIssue /\ [][NextIssue]_vars

\* the deductions of a candidate's form when pants go the way of shirts: the
\* alteration specification of either is parsed into a list of targets
AlikeDeductions(d, u, branch) ==
    LET shirt  == ShirtPlan(u)
        pants  == PantsPlan(u)
        After(r1) ==
            LET r2 == IF pants.quantity > 0
                      THEN deduct_uniforms_across_alterations(r1.db, "Pants", pants.size,
                               pants.quantity, branch,
                               parse_alteration_list(
                                   SplitCommas(Preferred(u.issPantsType, u.pantsType))))
                      ELSE [db |-> r1.db, adjustments |-> <<>>]
            IN  [db |-> r2.db, adjustments |-> r1.adjustments \o r2.adjustments]
    IN  After(IF shirt.quantity > 0
              THEN deduct_uniforms_across_alterations(d, "Shirt", shirt.size,
                       shirt.quantity, branch, shirt.alterations)
              ELSE [db |-> d, adjustments |-> <<>>])

\* the entry that this step of db_kanban_process_candidate has recorded
Processed == db'.items[Len(db'.items)]

\* C30: processing a candidate deducts shirts and pants alike: the alteration
\* specification of each is parsed into its list of targets, without repeats,
\* and the units are taken from the stock of the targets in turn
C30_PantsLikeShirts ==
    [][(db_kanban_process_candidate /\ Len(db'.items) = Len(db.items) + 1)
         => \E r \in {AlikeDeductions(db, Processed.candidates[1].uni, "B1")} :
               /\ db'.uniforms = r.db.uniforms
               /\ Processed.adjustments = r.adjustments]_vars

\* ------------------------------------------------ stock given back and retaken
\* the units a list of stock entries or adjustments holds under a composite key
TotalOf(list, key) ==
    SumQuantity(SelectSeq(list, LAMBDA e : uniform_key_from_entry(e) = key))

\* the composite keys of a list of stock entries or adjustments
KeysOf(list) == {uniform_key_from_entry(list[i]) : i \in 1..Len(list)}

\* two stocks hold the same units under every composite key
SameTotals(a, b) ==
    \A key \in KeysOf(a) \cup KeysOf(b) : TotalOf(a, key) = TotalOf(b, key)

\* C31: after db_kanban_process_candidate has deducted stock, the undo of the
\* entry it recorded gives every composite key (branch, type, size, alteration)
\* the units it held before the processing, and the redo that follows takes
\* the same units again, leaving every key what the processing left it
C31_UndoCreditsRedoDebits ==
    [][(/\ db_kanban_process_candidate
        /\ Len(db'.items) = Len(db.items) + 1
        /\ Processed.adjustments # <<>>)
         => \E u \in {restore_recycle_item([db' EXCEPT !.items = RemoveAt(@, Len(@))],
                                           Processed, nextId')} :
               /\ u.ok
               /\ ~u.overflow
               /\ SameTotals(u.db.uniforms, db.uniforms)
               /\ \E r \in {reapply_recycle_item(u.db, Processed, u.nextId + 1)} :
                     /\ r.ok
                     /\ SameTotals(r.db.uniforms, db'.uniforms)]_vars

\* an entry with adjustments under two keys has been undone and redone: it is
\* back on recycle.items, and the stock entry that the deduction used up and
\* the undo made anew is used up again
C31_CreditedAndDebitedAgain ==
    /\ result.cmd = "redo" /\ result.ok
    /\ \E i \in 1..Len(db.items) :
          /\ db.items[i].type = "kanban_cards"
          /\ Len(db.items[i].adjustments) > 1
          /\ \E j \in 1..Len(db.items[i].adjustments) :
                TotalOf(db.uniforms, uniform_key_from_entry(db.items[i].adjustments[j])) = 0
    /\ nextId > 3

\* ------------------------------------------------ merged cards and their rows
\* the cards of the incoming document in the order merge_databases takes
\* them: sorted by order, those without a uuid left out
TakenCards(incoming) ==
    SelectSeq(SortByOrder(incoming.cards), LAMBDA c : c.uuid # EmptyId)

\* the card the merge made of the k-th card taken, and the candidate row it
\* made of the j-th incoming row
MergedCard(k) == db.cards[Len(result.target.cards) + k]

MergedRowOf(j) == db.candidates[Len(result.target.candidates) + j]

\* the incoming document repeats no uuid among its cards or among its rows
IncomingApart ==
    /\ Distinct(UuidsOf(result.incoming.cards))
    /\ Distinct(UuidsOf(result.incoming.candidates))

\* C32: merge_databases keeps candidate rows aligned with their cards: for every
\* incoming card that has an incoming candidate row with the same id, the
\* merged row's candidate UUID is the merged card's uuid, whatever the target
\* (a target with a candidate row whose card processing removed included)
C32_RowsFollowCards ==
    (result.cmd = "merge" /\ IncomingApart)
        => \A k \in 1..Len(TakenCards(result.incoming)),
              j \in 1..Len(result.incoming.candidates) :
                TakenCards(result.incoming)[k].uuid = result.incoming.candidates[j].uuid
                    => MergedRowOf(j).uuid = MergedCard(k).uuid

\* ------------------------------------------------ merged cards and their columns
\* a second column, and a card of a column with an order
HoldColumn == [id |-> -3, name |-> "Hold", order |-> 2]

CardIn(uuid, column_id, order) ==
    [uuid |-> uuid, column_id |-> column_id, order |-> order, name |-> "n1", branch |-> "B1"]

\* the orders a card may have been given: db_kanban_update_card files any i64
\* (apply_card_updates), the largest one included
CardOrders == {1, 2 * TwoTo62 - 1}

\* boards to merge into: no column, or one column that is empty or holds a card
CardTargets ==
    {default_db_value}
    \cup {[default_db_value EXCEPT !.columns = <<col>>] : col \in {MergeColumn, HoldColumn}}
    \cup {[default_db_value EXCEPT !.columns = <<col>>, !.cards = <<CardIn(-1, col.id, o)>>] :
            col \in {MergeColumn, HoldColumn}, o \in CardOrders}

\* boards to merge in: with or without the column "Intake" (id -1), and one card
\* that names that column, the column "Hold" (id -3), a column nobody has (id
\* -5) or none, or two cards of "Intake" filed in descending order
CardIncoming ==
    {[default_db_value EXCEPT !.columns = cols, !.cards = cards] :
        cols \in {<<>>, <<MergeColumn>>},
        cards \in {<<CardIn(-4, c, 1)>> : c \in {-1, -3, -5, EmptyId}}
                  \cup {<<CardIn(-4, -1, 2), CardIn(-6, -1, 1)>>}}

InitMergeCards ==
    /\ db \in CardTargets
    /\ nextId = 0
    /\ result = NoResult
    /\ disk = [data |-> NoFile, sources |-> {}, meta |-> NoMeta, auth |-> AuthRecordOf("p")]
    /\ cache = EmptyCache
    /\ proc = [t \in Threads |-> IdleProc]
    /\ hist = [salts |-> 0, saved |-> <<>>, clean |-> FALSE, writer |-> 0]

SpecMergeCards == InitMergeCards /\ [][Merge(CardIncoming)]_vars

\* the columns of the incoming document in the order merge_databases takes
\* them: sorted by order, those without an id left out
TakenColumns(incoming) ==
    SelectSeq(SortByOrder(incoming.columns), LAMBDA c : c.id # EmptyId)

\* the column a card taken from incoming belongs in: the column the merge made
\* of its incoming column; its own column_id when no incoming column has that
\* id and a column of the target has; else the first column of the merged list
ColumnFor(card) ==
    LET taken == TakenColumns(result.incoming)
        made  == {j \in 1..Len(taken) : taken[j].id = card.column_id}
    IN  IF made # {}
        THEN db.columns[Len(result.target.columns) + SetMax(made)].id
        ELSE IF card.column_id # EmptyId /\ card.column_id \in Ids(result.target.columns)
        THEN card.column_id
        ELSE db.columns[1].id

\* the cards that were in the column of the k-th merged card before it
CardsBefore(k) ==
    SelectSeq(SubSeq(db.cards, 1, Len(result.target.cards) + k - 1),
              LAMBDA c : c.column_id = MergedCard(k).column_id)

\* the merged card is in a column of the merged document, the one it belongs in
InItsColumn(k) ==
    /\ MergedCard(k).column_id \in Ids(db.columns)
    /\ MergedCard(k).column_id = ColumnFor(TakenCards(result.incoming)[k])

\* C33: after merge_databases into a document that has a column afterwards,
\* every card taken from incoming is in a column of the merged document: the
\* remapped id of its incoming column, or the first column of the merged list
\* when that column is missing; and its order is greater than the order of
\* every card already in that column
C33_MergedCardPlaced ==
    (result.cmd = "merge" /\ result.ok /\ db.columns # <<>>)
        => \A k \in 1..Len(TakenCards(result.incoming)) :
              /\ InItsColumn(k)
              /\ \A i \in 1..Len(CardsBefore(k)) :
                    MergedCard(k).order > CardsBefore(k)[i].order

\* ------------------------------------------------ merged stock
\* a stock entry of shirts of size M, as db_uniforms_add_item files it
ShirtsOf(id, alteration, branch, quantity) ==
    [id |-> id, alteration |-> alteration, type |-> "Shirt", size |-> "M", waist |-> "",
     inseam |-> "", quantity |-> quantity, branch |-> branch]

\* stock lists to merge: none; one entry of 1 or of 2^62 units; the same key in
\* other letter case; another key; two keys; an entry without units
MergeStockLists ==
    {<<>>,
     <<ShirtsOf(-1, "alt1", "B1", 1)>>,
     <<ShirtsOf(-1, "alt1", "B1", TwoTo62)>>,
     <<ShirtsOf(-1, "ALT1", "b1", 1)>>,
     <<ShirtsOf(-1, "alt2", "B1", 1)>>,
     <<ShirtsOf(-1, "alt1", "B1", 1), ShirtsOf(-3, "alt2", "B1", 1)>>,
     <<ShirtsOf(-1, "alt2", "B1", 0), ShirtsOf(-3, "ALT1", "B1", 1)>>}

MergeStockOnly == {[default_db_value EXCEPT !.uniforms = list] : list \in MergeStockLists}

InitMergeStock ==
    /\ db \in MergeStockOnly
    /\ nextId = 0
    /\ result = NoResult
    /\ disk = [data |-> NoFile, sources |-> {}, meta |-> NoMeta, auth |-> AuthRecordOf("p")]
    /\ cache = EmptyCache
    /\ proc = [t \in Threads |-> IdleProc]
    /\ hist = [salts |-> 0, saved |-> <<>>, clean |-> FALSE, writer |-> 0]

SpecMergeStock == InitMergeStock /\ [][Merge(MergeStockOnly)]_vars

\* the units above zero a list of stock entries holds under a composite key
PositiveOf(list, key) ==
    TotalOf(SelectSeq(list, LAMBDA e : e.quantity > 0), key)

\* the number of entries a list of stock entries has under a composite key
EntriesOf(list, key) ==
    Len(SelectSeq(list, LAMBDA e : uniform_key_from_entry(e) = key))

\* C34: merge_databases merges stock additively per case-insensitive composite
\* key (branch, type, size, alteration): under every key the merged stock holds
\* what the target held plus the quantities above zero that incoming holds, and
\* a key the target has gets no second entry
C34_StockAdded ==
    (result.cmd = "merge" /\ result.ok)
        => \A key \in KeysOf(db.uniforms) \cup KeysOf(result.target.uniforms)
                        \cup KeysOf(result.incoming.uniforms) :
              /\ TotalOf(db.uniforms, key)
                    = TotalOf(result.target.uniforms, key)
                        + PositiveOf(result.incoming.uniforms, key)
              /\ EntriesOf(result.target.uniforms, key) > 0
                    => EntriesOf(db.uniforms, key) = EntriesOf(result.target.uniforms, key)

\* ------------------------------------------------ ids of the ledger
\* C35: no two entries of recycle.items and recycle.redo together share an id,
\* in every state the delete, process, undo and redo commands lead to
C35_LedgerIdsApart ==
    Distinct(IdsOf(db.items) \o IdsOf(db.redo))

\* one entry has been undone and is on recycle.redo while another, recorded
\* after it, is on recycle.items
C35_EntriesOnBothLists ==
    /\ Len(db.items) = 1 /\ Len(db.redo) = 1
    /\ db.items[1].id > db.redo[1].id

\* ------------------------------------------------ the cache and the file
\* the data file holds, sealed, the document the cache holds
CacheIsFile ==
    /\ cache.value # <<>>
    /\ disk.data.kind = "envelope"
    /\ disk.data.text = Serialize(cache.value[1])

\* C36: once the commands that ran side by side under one password have all
\* returned, the document in the cache is the document in the data file, so
\* the next load returns what was saved last
C36_CacheIsFileAtRest ==
    (/\ \A t \in Threads : At(t, "done") /\ proc[t].op = "todos_set" /\ proc[t].ok
     /\ hist.saved # <<>>)
        => CacheIsFile

\* ------------------------------------------------ the key of a written envelope
\* the envelope thread t is about to write: write_text_file of
\* encrypt_text_with_key(serialized, salt, key)
EnvelopeOf(t) ==
    encrypt_text_with_key(Serialize(proc[t].value), proc[t].salt, proc[t].key)

\* C37: every envelope save_db_value writes is sealed with the key derived from
\* the password of that save and the salt the envelope records, however loads
\* and saves under any passwords interleave; so decrypt_envelope with that
\* password opens it
C37_SealedWithOwnKey ==
    \A t \in Threads :
        At(t, "save_write")
            => /\ EnvelopeOf(t).key = derive_key(proc[t].pw, EnvelopeOf(t).salt)
               /\ decrypt_envelope(EnvelopeOf(t), proc[t].pw) = <<Serialize(proc[t].value)>>

\* a save writes with the salt of the file another save has made, while the
\* cache slot is tagged with the other password
C37_WritesBesideOtherPassword ==
    \E t \in Threads :
        /\ At(t, "save_write")
        /\ cache.key # <<>> /\ cache.key # <<db_cache_key(proc[t].pw)>>
        /\ hist.saved # <<>> /\ hist.saved[1].pw # proc[t].pw

\* ------------------------------------------------ deleted columns
\* a third column, ordered before the other two
FirstColumn == [id |-> -5, name |-> "First", order |-> 0]

\* no card, one card or two cards, each in one of the columns and with one of
\* the orders
CardsIn(columns, orders) ==
    {<<>>}
    \cup {<<CardIn(-1, c, o)>> : c \in columns, o \in orders}
    \cup {<<CardIn(-1, c1, o1), CardIn(-4, c2, o2)>> :
            c1 \in columns, c2 \in columns, o1 \in orders, o2 \in orders}

\* boards to delete columns from: one column; two columns in either order or
\* with one order; three columns, the one ordered first filed last
ColumnDocs ==
    {[default_db_value EXCEPT !.columns = <<MergeColumn>>, !.cards = cards] :
        cards \in CardsIn({-1}, CardOrders)}
    \cup {[default_db_value EXCEPT
             !.columns = <<[MergeColumn EXCEPT !.order = o[1]], [HoldColumn EXCEPT !.order = o[2]]>>,
             !.cards = cards] :
            o \in {<<1, 2>>, <<2, 1>>, <<1, 1>>}, cards \in CardsIn({-1, -3}, {1, 2} \cup CardOrders)}
    \cup {[default_db_value EXCEPT
             !.columns = <<MergeColumn, HoldColumn, FirstColumn>>, !.cards = cards] :
            cards \in CardsIn({-1, -5}, CardOrders)}

InitColumns ==
    /\ db \in ColumnDocs
    /\ nextId = 0
    /\ result = NoResult
    /\ disk = [data |-> NoFile, sources |-> {}, meta |-> NoMeta, auth |-> AuthRecordOf("p")]
    /\ cache = EmptyCache
    /\ proc = [t \in Threads |-> IdleProc]
    /\ hist = [salts |-> 0, saved |-> <<>>, clean |-> FALSE, writer |-> 0]

\* columns are deleted one at a time or several at once, and brought back
NextColumns ==
    \/ db_kanban_remove_column
    \/ db_delete_rows({"kanban_columns"})
    \/ db_recycle_undo
    \/ db_recycle_redo

SpecColumns == InitColumns /\ [][NextColumns]_vars

\* the ids of the columns a step has deleted
Deleted(old, new) == Ids(old.columns) \ Ids(new.columns)

\* the card with a uuid
CardOf(cards, uuid) == cards[CHOOSE i \in 1..Len(cards) : cards[i].uuid = uuid]

\* the ids of the columns with the lowest order
LowestIds(columns) ==
    {columns[i].id : i \in {j \in 1..Len(columns) :
                              \A k \in 1..Len(columns) : columns[j].order <= columns[k].order}}

\* what a deletion of columns has made of the board: the cards of the deleted
\* columns are in the remaining column with the lowest order, above the cards it
\* had and in the order they had among themselves; the other cards are as they
\* were; the columns are gone and an entry is recorded
ColumnsDeleted(old, new) ==
    LET gone == Deleted(old, new)
        held == {i \in 1..Len(old.cards) : old.cards[i].column_id \in gone}
        After(i) == CardOf(new.cards, old.cards[i].uuid)
    IN  /\ new.columns = SelectSeq(old.columns, LAMBDA c : c.id \notin gone)
        /\ Len(new.items) = Len(old.items) + 1
        /\ Uuids(new.cards) = Uuids(old.cards) /\ Len(new.cards) = Len(old.cards)
        /\ held # {} => new.columns # <<>>
        /\ \A i \in held :
              /\ After(i).column_id \in LowestIds(new.columns)
              /\ \A j \in 1..Len(old.cards) :
                    old.cards[j].column_id = After(i).column_id
                        => After(i).order > old.cards[j].order
        /\ \A i, j \in held :
              old.cards[i].order < old.cards[j].order => After(i).order < After(j).order
        /\ \A i \in (1..Len(old.cards)) \ held : After(i) = old.cards[i]

\* the board has one column and that column holds a card
LastColumnHoldsCards ==
    /\ Len(db.columns) = 1
    /\ \E i \in 1..Len(db.cards) : db.cards[i].column_id = db.columns[1].id

\* C38: a deletion of columns moves every card of the deleted columns to the
\* remaining column with the lowest order, above the cards that column has and
\* in the order they had, and removes the columns; when no column would remain
\* while the deleted columns hold cards it is refused, and columns, cards and
\* ledger are as they were
C38_CardsMovedThenColumnsGone ==
    [][(db_kanban_remove_column \/ db_delete_rows({"kanban_columns"}))
         => /\ db'.columns # db.columns => ColumnsDeleted(db, db')
            /\ LastColumnHoldsCards => db' = db]_vars

\* ------------------------------------------------ undo and redo that fail
\* an entry of a type this version does not know, as a file written elsewhere
\* may hold it
ForeignEntry(id) == PushEntry(Payload("notes"), id)

\* documents to retry on: boards of two columns with an empty ledger, and the
\* same boards with a foreign entry on recycle.items and one on recycle.redo
RetryDocs ==
    LET boards == {d \in ColumnDocs :
                     /\ Len(d.columns) = 2
                     /\ \A i \in 1..Len(d.cards) : d.cards[i].order < TwoTo62}
    IN  boards
        \cup {[d EXCEPT !.items = <<ForeignEntry(-1)>>, !.redo = <<ForeignEntry(-3)>>] :
                d \in boards}

InitRetry ==
    /\ db \in RetryDocs
    /\ nextId = 0
    /\ result = NoResult
    /\ disk = [data |-> NoFile, sources |-> {}, meta |-> NoMeta, auth |-> AuthRecordOf("p")]
    /\ cache = EmptyCache
    /\ proc = [t \in Threads |-> IdleProc]
    /\ hist = [salts |-> 0, saved |-> <<>>, clean |-> FALSE, writer |-> 0]

NextRetry ==
    \/ db_kanban_remove_column
    \/ db_recycle_undo
    \/ db_recycle_redo

SpecRetry == InitRetry /\ [][NextRetry]_vars

\* the answers of an undo and of a redo that found the entry and could not
\* restore or reapply it
UnableErrors == {"Unable to restore.", "Unable to redo."}

\* the list an undo, or a redo, takes its entry from
ListOf(d, cmd) == IF cmd = "undo" THEN d.items ELSE d.redo

\* C39: an undo or a redo that found its entry and failed (an entry of unknown
\* type, a column redo refused for the last column that holds cards) saves
\* nothing: the document, the file and the cache are as they were, and the token
\* still finds the same entry on the same list
C39_FailedUndoRedoSavesNothing ==
    [][((db_recycle_undo \/ db_recycle_redo)
          /\ result'.cmd \in {"undo", "redo"} /\ ~result'.ok
          /\ result'.err \in UnableErrors)
         => /\ db' = db
            /\ disk' = disk
            /\ cache' = cache
            /\ FirstIndex(ListOf(db, result'.cmd), ClampId(result'.arg)) # 0
            /\ FirstIndex(ListOf(db', result'.cmd), ClampId(result'.arg))
                  = FirstIndex(ListOf(db, result'.cmd), ClampId(result'.arg))]_vars

\* a redo of a deletion of columns was refused and its entry is still on
\* recycle.redo
C39_ColumnRedoRefused ==
    /\ result.cmd = "redo" /\ ~result.ok /\ result.err = "Unable to redo."
    /\ \E i \in 1..Len(db.redo) :
          /\ db.redo[i].id = ClampId(result.arg)
          /\ db.redo[i].type = "kanban_columns"

\* ------------------------------------------------ one entry per key
\* C40: in every state reached by add item, deduction, delete rows, undo, redo
\* and merge, the uniforms list holds at most one entry for each composite key
\* (branch, type, size, alteration) compared without case
C40_OneEntryPerKey ==
    \A i, j \in 1..Len(db.uniforms) :
        uniform_key_from_entry(db.uniforms[i]) = uniform_key_from_entry(db.uniforms[j])
            => i = j

====
